---- MODULE Spec2Model ----
(***************************************************************************)
(* Verification model of ipiis: the routing table (RouterClient /          *)
(* AddressBook), the identity-keyed client (IpiisClient), the signed       *)
(* request/response framing (define_io!, external_call!,                   *)
(* handle_external_call!) and the builtin routing handlers                 *)
(* (impl_ipiis_server!).                                                   *)
(***************************************************************************)
EXTENDS Integers, Sequences, FiniteSets, TLC

(***************************************************************************)
(* Bounds of the model.                                                    *)
(***************************************************************************)
NumPeers == 3
NumKinds == 1
MaxTableOps == 3
MaxOps == 2
MaxDepth == 3 * NumPeers + 3

(***************************************************************************)
(* Accounts, kinds, addresses.                                             *)
(***************************************************************************)
Peers == 1..NumPeers
Accounts == Peers
NoAccount == 0
\* Option<&Hash>: None is NoKind, Some(k) is k in Kinds
NoKind == 0
Kinds == 1..NumKinds
OptKinds == {NoKind} \cup Kinds
\* absence of a textual value
NoText == ""

PortText == <<"5001", "5002", "5003", "5004", "5005", "5006">>
\* the socket address a peer's server listens on, as the examples write it
IpText(p) == "127.0.0.1:" \o PortText[p]
\* a literal socket address that is not in the form Display prints
LongV6Text == "[0:0:0:0:0:0:0:1]:5001"
ShortV6Text == "[::1]:5001"
\* a host name with an IPv4 and an IPv6 record
HostText == "localhost:5001"
\* a host name that does not resolve
BadText == "nohost:1"
SocketTexts == {IpText(p) : p \in Peers} \cup {ShortV6Text}
AddressTexts == SocketTexts \cup {LongV6Text, HostText, BadText}
\* the addresses handed to the directly exercised table
TableAddressInputs == {IpText(1), LongV6Text, HostText, BadText}

\* <String as ToSocketAddrs>::to_socket_addrs: the text is parsed as a socket
\* address literal first and looked up as host:port otherwise
to_socket_addrs(address) ==
    IF address \in SocketTexts THEN [addrs |-> <<address>>, ok |-> TRUE]
    ELSE IF address = LongV6Text THEN [addrs |-> <<ShortV6Text>>, ok |-> TRUE]
    ELSE IF address = HostText THEN [addrs |-> <<ShortV6Text, IpText(1)>>, ok |-> TRUE]
    ELSE [addrs |-> <<>>, ok |-> FALSE]

\* AccountRef::to_string and its FromStr inverse
AccountNames == <<"acc1", "acc2", "acc3", "acc4", "acc5", "acc6">>
AccountToString(account) == AccountNames[account]
AccountFromStr(text) ==
    IF \E a \in Accounts : AccountNames[a] = text
    THEN CHOOSE a \in Accounts : AccountNames[a] = text
    ELSE NoAccount

\* <String as FromStr>::from_str copies the text
AddressFromStr(text) == text
\* <String as ToString>::to_string copies the text
AddressToString(address) == address

(***************************************************************************)
(* Results: Result<T> of the operations, with one shape for every T.       *)
(***************************************************************************)
Ok(account, address) == [account |-> account, address |-> address, err |-> "", ok |-> TRUE]
Err(msg) == [account |-> NoAccount, address |-> NoText, err |-> msg, ok |-> FALSE]
OkUnit == Ok(NoAccount, NoText)

(***************************************************************************)
(* Routing table: a sled tree, a finite map from canonical keys to texts.  *)
(***************************************************************************)
EmptyTable == <<>>

KindBytes(kind) == IF kind = NoKind THEN <<>> ELSE <<kind>>
AccountBytes(account) == IF account = NoAccount THEN <<>> ELSE <<account>>

\* the kind and the account with no flag in front
to_key_unflagged(kind, account) == KindBytes(kind) \o AccountBytes(account)

\* key = [flag] ++ kind ++ account
to_key_canonical(kind, account) ==
    LET flag == (IF kind # NoKind THEN 2 ELSE 0) + (IF account # NoAccount THEN 1 ELSE 0)
    IN  <<flag>> \o KindBytes(kind) \o AccountBytes(account)

TableGet(table, key) == IF key \in DOMAIN table THEN table[key] ELSE NoText
TableInsert(table, key, value) ==
    [k \in DOMAIN table \cup {key} |-> IF k = key THEN value ELSE table[k]]
TableRemove(table, key) == [k \in DOMAIN table \ {key} |-> table[k]]

\* RouterClient::get
RouterClient_get(table, kind, target) ==
    LET key == to_key_canonical(kind, target)
    IN  Ok(NoAccount, AddressFromStr(TableGet(table, key)))

\* AddressBook::get
AddressBook_get(table, me, kind, target) ==
    LET key == to_key_canonical(kind, target)
    IN  IF key \in DOMAIN table
        THEN Ok(NoAccount, AddressFromStr(table[key]))
        ELSE IF me = target
             THEN Err("cannot get the address myself")
             ELSE Ok(NoAccount, NoText)

\* RouterClient::get_primary, AddressBook::get_primary
get_primary(table, kind) ==
    LET key == to_key_canonical(kind, NoAccount)
    IN  IF key \in DOMAIN table THEN AccountFromStr(table[key]) ELSE NoAccount

\* a set that files every address under the key without a kind
RouterClient_set_unkinded(table, kind, target, address) ==
    LET r == to_socket_addrs(address)
    IN  IF ~r.ok
        THEN [res |-> Err("failed to parse the socket address"), table |-> table]
        ELSE IF Len(r.addrs) = 0
        THEN [res |-> Err("failed to parse the socket address"), table |-> table]
        ELSE [res |-> OkUnit,
              table |-> TableInsert(table, to_key_canonical(NoKind, target),
                                    AddressToString(r.addrs[1]))]

\* RouterClient::set: result and table after
RouterClient_set(table, kind, target, address) ==
    LET r == to_socket_addrs(address)
    IN  IF ~r.ok
        THEN [res |-> Err("failed to parse the socket address"), table |-> table]
        ELSE IF Len(r.addrs) = 0
        THEN [res |-> Err("failed to parse the socket address"), table |-> table]
        ELSE [res |-> OkUnit,
              table |-> TableInsert(table, to_key_canonical(kind, target),
                                    AddressToString(r.addrs[1]))]

\* AddressBook::set: result and table after
AddressBook_set(table, kind, target, address) ==
    LET r == to_socket_addrs(address)
    IN  IF ~r.ok
        THEN [res |-> Err("failed to parse the socket address"), table |-> table]
        ELSE IF Len(r.addrs) # 1
        THEN [res |-> Err("failed to parse the socket address"), table |-> table]
        ELSE [res |-> OkUnit,
              table |-> TableInsert(table, to_key_canonical(kind, target),
                                    AddressToString(address))]

\* RouterClient::set_primary, AddressBook::set_primary
set_primary(table, kind, account) ==
    TableInsert(table, to_key_canonical(kind, NoAccount), AccountToString(account))

\* RouterClient::delete
delete(table, kind, target) == TableRemove(table, to_key_canonical(kind, target))

\* RouterClient::delete_primary
delete_primary(table, kind) == TableRemove(table, to_key_canonical(kind, NoAccount))

(***************************************************************************)
(* State.                                                                  *)
(***************************************************************************)
VARIABLES
    \* one routing table exercised directly through its own operations
    tImpl,      \* which implementation owns the table
    tTable,     \* the sled tree
    tSet,       \* per address key, the address passed to the last successful set
    tLast,      \* the last operation, its arguments and its result
    tOps,       \* operations performed so far
    \* a deployment of peers, each a server holding a client and its table
    tables,     \* per peer, the routing table of its RouterClient
    stack,      \* the chain of pending calls of the running operation
    ret,        \* the value handed back to the frame on top of the stack
    ops,        \* operations started so far
    cur,        \* the operation that was started last
    result,     \* what that operation returned
    log,        \* what the running operation did: writes, requests, handlers, replies
    pre,        \* the tables when the operation was started
    epoch,      \* table changes since the operation was started
    prev,       \* the operation started before cur, and what it returned
    diverged,   \* the operation entered a call it is already in, in the same state
    \* one server, the connections it accepted and the stream it is serving
    sImpl,      \* which server runs: handle_external_call! or the native try_handle
    accept,     \* the accept loop of IpiisServer::run
    conns,      \* per accepted connection, the state of its connection loop
    stream,     \* the stream task spawned last: request, progress, reply, caller's result
    served,     \* streams spawned so far
    failedOn,   \* the connections on which a stream task has failed
    parked,     \* a spawned stream task that is waiting while another one runs
    \* the invocations of IpiisServer::run on one server
    runs,       \* per invocation, where it is and the connections it accepted
    lock,       \* the invocation that holds the mutex of the incoming stream
    \* one typed call, followed item by item on its stream
    wcall,      \* the call: caller, target, the server reached, opcode, envelope
    link,       \* the caller's connection to the target: none, open or failed
    up,         \* the items the caller has written to the stream, in order
    down,       \* the items the server has written to the stream, in order
    sgot,       \* the items the server has read, each with the slot it was read into
    cgot,       \* the items the caller has read, each with the slot it was read into
    wsrv,       \* the server's stream task: where it is, and the handler's result
    wout,       \* what the call returned to the caller
    now,        \* the server's clock when it verifies the request
    \* the identity of every peer
    account_me  \* per peer, the account its RouterClient holds

tvars == <<tImpl, tTable, tSet, tLast, tOps>>
nvars == <<tables, stack, ret, ops, cur, result, log, pre, epoch, prev, diverged>>
rvars == <<runs, lock>>
wvars == <<wcall, link, up, down, sgot, cgot, wsrv, wout, now>>
ivars == <<account_me>>
svars == <<sImpl, accept, conns, stream, served, failedOn, parked, runs, lock, wvars, ivars>>
vars == <<tImpl, tTable, tSet, tLast, tOps,
          tables, stack, ret, ops, cur, result, log, pre, epoch, prev, diverged,
          sImpl, accept, conns, stream, served, failedOn, parked, runs, lock,
          wcall, link, up, down, sgot, cgot, wsrv, wout, now, account_me>>

\* RouterClient::new: the account a peer is constructed with
Constructed == [p \in Peers |-> p]
\* Ipiis::account_ref, Ipiis::account_me
account_ref(p) == account_me[p]

(***************************************************************************)
(* Envelopes, result flags, frames.                                        *)
(***************************************************************************)
\* the signed payload of the builtin operations: (kind, account, address)
Payload(kind, account, address) == [account |-> account, address |-> address, kind |-> kind]
NoData == Payload(NoKind, NoAccount, NoText)
\* Metadata::expiration_date: None, or a time of the server's clock
NoExpiry == 0
Times == 1..MaxOps
NoEnv ==
    [data |-> NoData, expiration |-> NoExpiry, guarantee |-> NoAccount,
     guarantor |-> NoAccount, target |-> NoAccount]

\* ServerResult
ACK == 128
OK == 64
ERR == 32
ACK_OK == ACK + OK
ACK_ERR == ACK + ERR
\* ServerResult::from_bits: none when a bit outside ACK | OK | ERR is set; the
\* three flags are the highest bits of the byte, so those are the bits below ERR
from_bits(bits) ==
    IF bits % ERR = 0 THEN [bits |-> bits, some |-> TRUE] ELSE [bits |-> 0, some |-> FALSE]

\* ServerResult::contains for a single-bit flag
contains(bits, flag) == (bits \div flag) % 2 = 1
NoFlag == 0

OpCodes == {"GetAccountPrimary", "SetAccountPrimary", "DeleteAccountPrimary",
            "GetAddress", "SetAddress", "DeleteAddress"}
\* every builtin opcode
AdminOpCodes_and_gets == OpCodes

\* the opcodes whose handlers call ensure_self_signed
AdminOpCodes == {"SetAccountPrimary", "DeleteAccountPrimary", "SetAddress", "DeleteAddress"}

NoRet == [env |-> NoEnv, flag |-> NoFlag, res |-> OkUnit, set |-> FALSE]
Returned(res) == [env |-> NoEnv, flag |-> NoFlag, res |-> res, set |-> TRUE]
Replied(flag, env, res) == [env |-> env, flag |-> flag, res |-> res, set |-> TRUE]

NoCall == [account |-> NoAccount, address |-> NoText, fn |-> "none", kind |-> NoKind,
           peer |-> NoAccount, target |-> NoAccount]
Pending == Err("pending")

\* a pending call: a client operation (op), an external_call! (call) or a
\* server stream task (handle)
Frame(type, peer, fn, kind, account, address, target, env, pc) ==
    [account |-> account, address |-> address, env |-> env, epoch |-> 0, fn |-> fn,
     kind |-> kind, pc |-> pc, peer |-> peer, target |-> target, type |-> type]
OpFrame(peer, fn, kind, account, address) ==
    Frame("op", peer, fn, kind, account, address, NoAccount, NoEnv, "start")
CallFrame(peer, target, opcode, env) ==
    Frame("call", peer, opcode, NoKind, NoAccount, NoText, target, env, "call_raw")
HandleFrame(peer, opcode, env) ==
    Frame("handle", peer, opcode, NoKind, NoAccount, NoText, NoAccount, env, "recv")

\* what an operation did: a table write (write), an external_call! (call), a
\* request written to a server's stream (send), a handler invoked (handler),
\* a result flag and response written by a server (reply)
Event(ev, peer, to, opcode, env, flag, res) ==
    [env |-> env, ev |-> ev, flag |-> flag, opcode |-> opcode, peer |-> peer,
     res |-> res, to |-> to]

\* what a client wrote to a stream: the opcode (NoOpCode: bytes that are no
\* opcode), whether the bytes after it parse as a request, and the envelope
NoOpCode == ""
Request(opcode, parsed, env) == [env |-> env, opcode |-> opcode, parsed |-> parsed]
NoRequest == Request(NoOpCode, FALSE, NoEnv)

\* what the caller finds on the stream: read_u8 succeeded or not, the result
\* flag, the signature of the payload and the payload
Reply(flag, env, res) == [env |-> env, flag |-> flag, read |-> TRUE, res |-> res]
NoReply == [env |-> NoEnv, flag |-> NoFlag, read |-> FALSE, res |-> OkUnit]

\* a stream task: the connection it came in on, the request, where the task
\* is, the error __try_handle returned, the reply, and what the caller made
\* of it
StreamTask(conn, req, pc, err, wire, out) ==
    [conn |-> conn, err |-> err, out |-> out, pc |-> pc, req |-> req, wire |-> wire]
\* one object on a stream: the opcode, an envelope (__sign), a declared field,
\* the result flag or the text of an error
Item(tag, name, val, bits, env) ==
    [bits |-> bits, env |-> env, name |-> name, tag |-> tag, val |-> val]
\* an item read from a stream, with the slot the reader read it into
Got(slot, item) == [item |-> item, slot |-> slot]

\* a typed call: who calls, the account the request is addressed to, the peer
\* whose server the connection reached, the opcode and the signed request
WireCall(caller, target, server, opcode, env) ==
    [caller |-> caller, env |-> env, opcode |-> opcode, server |-> server, target |-> target]
NoWireCall == WireCall(NoAccount, NoAccount, NoAccount, NoOpCode, NoEnv)

\* the server's stream task: reading the request (recv), writing the response
\* or the error (send), finished (done); the handler's result and outputs
WireTask(pc, handled, res) == [handled |-> handled, pc |-> pc, res |-> res]
NoWireTask == WireTask("recv", FALSE, OkUnit)

WireIdle ==
    /\ wcall = NoWireCall
    /\ link = "none"
    /\ up = <<>>
    /\ down = <<>>
    /\ sgot = <<>>
    /\ cgot = <<>>
    /\ wsrv = NoWireTask
    /\ wout = Pending
    /\ now = 1

NoStream == StreamTask(0, NoRequest, "none", NoText, NoReply, OkUnit)

StreamIdle ==
    /\ sImpl = "handle_external_call"
    /\ accept = "running"
    /\ conns = <<>>
    /\ stream = NoStream
    /\ served = 0
    /\ failedOn = {}
    /\ parked = NoStream
    /\ runs = <<>>
    /\ lock = 0
    /\ WireIdle
NetIdle ==
    /\ stack = <<>>
    /\ ret = NoRet
    /\ ops = 0
    /\ cur = NoCall
    /\ result = OkUnit
    /\ log = <<>>
    /\ epoch = 0
    /\ prev = [call |-> NoCall, log |-> <<>>, pre |-> tables, result |-> OkUnit]
    /\ diverged = FALSE

\* the account that owns the directly exercised table
TableOwner == 1

TableImpls == {"RouterClient", "AddressBook"}

NoOp == [account |-> NoAccount, address |-> NoText, kind |-> NoKind, op |-> "none", res |-> OkUnit]
LastOp(op, kind, account, address, res) ==
    [account |-> account, address |-> address, kind |-> kind, op |-> op, res |-> res]

(***************************************************************************)
(* The routing table on its own: AddressBook::new / RouterClient::new      *)
(* followed by any sequence of table operations.                           *)
(***************************************************************************)
TableInit ==
    /\ account_me = Constructed
    /\ tImpl \in TableImpls
    /\ tTable = EmptyTable
    /\ tSet = EmptyTable
    /\ tLast = NoOp
    /\ tOps = 0
    /\ tables = [p \in Peers |-> EmptyTable]
    /\ pre = tables
    /\ NetIdle
    /\ StreamIdle

Table_set(kind, target, address) ==
    /\ tOps < MaxTableOps
    /\ LET r == IF tImpl = "RouterClient"
                THEN RouterClient_set(tTable, kind, target, address)
                ELSE AddressBook_set(tTable, kind, target, address)
       IN  /\ tTable' = r.table
           /\ tSet' = IF r.res.ok
                      THEN TableInsert(tSet, to_key_canonical(kind, target), address)
                      ELSE tSet
           /\ tLast' = LastOp("set", kind, target, address, r.res)
    /\ tOps' = tOps + 1
    /\ UNCHANGED <<tImpl, nvars, svars>>

Table_get(kind, target) ==
    /\ tOps < MaxTableOps
    /\ tLast' = LastOp("get", kind, target, NoText,
                       IF tImpl = "RouterClient"
                       THEN RouterClient_get(tTable, kind, target)
                       ELSE AddressBook_get(tTable, TableOwner, kind, target))
    /\ tOps' = tOps + 1
    /\ UNCHANGED <<tImpl, tTable, tSet, nvars, svars>>

Table_set_primary(kind, account) ==
    /\ tOps < MaxTableOps
    /\ tTable' = set_primary(tTable, kind, account)
    /\ tLast' = LastOp("set_primary", kind, account, NoText, OkUnit)
    /\ tOps' = tOps + 1
    /\ UNCHANGED <<tImpl, tSet, nvars, svars>>

Table_get_primary(kind) ==
    /\ tOps < MaxTableOps
    /\ tLast' = LastOp("get_primary", kind, NoAccount, NoText,
                       Ok(get_primary(tTable, kind), NoText))
    /\ tOps' = tOps + 1
    /\ UNCHANGED <<tImpl, tTable, tSet, nvars, svars>>

Table_delete(kind, target) ==
    /\ tOps < MaxTableOps
    /\ tImpl = "RouterClient"
    /\ tTable' = delete(tTable, kind, target)
    /\ tSet' = TableRemove(tSet, to_key_canonical(kind, target))
    /\ tLast' = LastOp("delete", kind, target, NoText, OkUnit)
    /\ tOps' = tOps + 1
    /\ UNCHANGED <<tImpl, nvars, svars>>

Table_delete_primary(kind) ==
    /\ tOps < MaxTableOps
    /\ tImpl = "RouterClient"
    /\ tTable' = delete_primary(tTable, kind)
    /\ tLast' = LastOp("delete_primary", kind, NoAccount, NoText, OkUnit)
    /\ tOps' = tOps + 1
    /\ UNCHANGED <<tImpl, tSet, nvars, svars>>

TableNext ==
    \/ \E kind \in OptKinds, target \in Accounts, address \in TableAddressInputs :
          Table_set(kind, target, address)
    \/ \E kind \in OptKinds, target \in Accounts : Table_get(kind, target)
    \/ \E kind \in OptKinds, account \in Accounts : Table_set_primary(kind, account)
    \/ \E kind \in OptKinds : Table_get_primary(kind)
    \/ \E kind \in OptKinds, target \in Accounts : Table_delete(kind, target)
    \/ \E kind \in OptKinds : Table_delete_primary(kind)

TableSpec == TableInit /\ [][TableNext]_vars

\* the table written and read a few times, every account at its own address:
\* the keys of the four variants side by side
KeyNext ==
    \/ \E kind \in OptKinds, target \in Accounts :
          tOps < MaxOps /\ Table_set(kind, target, IpText(target))
    \/ \E kind \in OptKinds, account \in Accounts :
          tOps < MaxOps /\ Table_set_primary(kind, account)
    \/ \E kind \in OptKinds, target \in Accounts : tOps < MaxOps /\ Table_get(kind, target)
    \/ \E kind \in OptKinds : tOps < MaxOps /\ Table_get_primary(kind)

KeySpec == TableInit /\ [][KeyNext]_vars

\* the table written, read and erased a few times, every account at its own
\* address or at its neighbour's: entries of one account under several kinds
IsolationNext ==
    \/ \E kind \in OptKinds, target \in Accounts :
          \E address \in {IpText(target), IpText((target % NumPeers) + 1)} :
              tOps < MaxOps /\ Table_set(kind, target, address)
    \/ \E kind \in OptKinds, account \in Accounts :
          tOps < MaxOps /\ Table_set_primary(kind, account)
    \/ \E kind \in OptKinds, target \in Accounts : tOps < MaxOps /\ Table_get(kind, target)
    \/ \E kind \in OptKinds : tOps < MaxOps /\ Table_get_primary(kind)
    \/ \E kind \in OptKinds, target \in Accounts : tOps < MaxOps /\ Table_delete(kind, target)
    \/ \E kind \in OptKinds : tOps < MaxOps /\ Table_delete_primary(kind)

IsolationSpec == TableInit /\ [][IsolationNext]_vars

(***************************************************************************)
(* C1: after a successful set(kind, account, address), every later         *)
(* get(kind, account) on the same table returns exactly that address, in   *)
(* the text that was passed to set, whatever was done to other keys, until *)
(* the key is deleted or set again.                                        *)
(***************************************************************************)
C1_RoundTrip ==
    (tLast.op = "get" /\ to_key_canonical(tLast.kind, tLast.account) \in DOMAIN tSet)
        => tLast.res = Ok(NoAccount, tSet[to_key_canonical(tLast.kind, tLast.account)])

(***************************************************************************)
(* Deployments: what IpiisServer::new / IpiisClient::new leave in each     *)
(* peer's table, from the primary account and primary address each peer    *)
(* was configured with, and what a peer that is not a root has registered  *)
(* locally since.                                                          *)
(***************************************************************************)
Config(primary, address) ==
    [address |-> address, primary |-> primary, registered |-> NoAccount]
Unconfigured == Config(NoAccount, NoText)
\* the peer has registered account, with the address of its server, as the
\* primary of kind 1
Serving(config, account) == [config EXCEPT !.registered = account]

\* no peer has a primary
Standalone == [p \in Peers |-> Unconfigured]
\* peer 1 is the root, every other peer's primary is the peer before it
Chain == [p \in Peers |-> IF p = 1 THEN Unconfigured ELSE Config(p - 1, IpText(p - 1))]
\* the same chain configured without ipiis_account_primary_address
ChainNoAddress == [p \in Peers |-> IF p = 1 THEN Unconfigured ELSE Config(p - 1, NoText)]
\* peer 1 is its own primary and the primary of every other peer
Rooted == [p \in Peers |-> Config(1, IpText(1))]
\* every peer's primary is the next peer, the last peer's primary is peer 1
Ring == [p \in Peers |-> Config((p % NumPeers) + 1, IpText((p % NumPeers) + 1))]
\* peer 1 is the primary, configured with the address of the last peer
Misdirected == [p \in Peers |-> IF p = 1 THEN Unconfigured ELSE Config(1, IpText(NumPeers))]

\* the chain, where peer 1 has registered the last peer as the primary of
\* kind 1
Served == [p \in Peers |-> IF p = 1 THEN Serving(Unconfigured, NumPeers) ELSE Chain[p]]

Deployments == {Standalone, Chain, ChainNoAddress, Rooted, Ring, Misdirected, Served}

\* IpiisClient::new: the table after construction
IpiisClient_new(config) ==
    IF config.primary = NoAccount THEN EmptyTable
    ELSE LET t == set_primary(EmptyTable, NoKind, config.primary)
         IN  IF config.address = NoText THEN t
             ELSE RouterClient_set(t, NoKind, config.primary, config.address).table

\* the table of a peer that has run set_account_primary and set_address for
\* the account it registered (it has no primary or is not its own primary, so
\* both are local writes)
Deployed(config) ==
    LET t == IpiisClient_new(config)
    IN  IF config.registered = NoAccount THEN t
        ELSE RouterClient_set(set_primary(t, 1, config.registered),
                              1, config.registered, IpText(config.registered)).table

\* the server whose endpoint is bound to a socket address (IpiisServer::new
\* binds 0.0.0.0:port)
Listener(sock) ==
    IF \E p \in Peers : IpText(p) = sock
    THEN CHOOSE p \in Peers : IpText(p) = sock
    ELSE NoAccount

Init ==
    /\ account_me = Constructed
    /\ tImpl = "RouterClient"
    /\ tTable = EmptyTable
    /\ tSet = EmptyTable
    /\ tLast = NoOp
    /\ tOps = 0
    /\ \E d \in Deployments : tables = [p \in Peers |-> Deployed(d[p])]
    /\ pre = tables
    /\ NetIdle
    /\ StreamIdle

(***************************************************************************)
(* Signing and verification (ipis Data / Verifier as the callers use it).  *)
(***************************************************************************)
\* Ipiis::sign_owned
sign_owned(me, target, data) ==
    [data |-> data, expiration |-> NoExpiry, guarantee |-> account_ref(me),
     guarantor |-> NoAccount, target |-> target]

\* Ipiis::sign_as_guarantor
sign_as_guarantor(me, env) == [env EXCEPT !.guarantor = account_ref(me)]

\* Verifier::verify of a guarantee-signed envelope against the expected target
verify_guarantee(env, expected) == expected # NoAccount => env.target = expected

\* a verification that checks the target of the envelope and not who signed
\* it as guarantor
verify_guarantor_unsigned(env, expected) == verify_guarantee(env, expected)

\* Verifier::verify of a guarantor-signed envelope against the expected guarantor
verify_guarantor(env, expected) ==
    /\ verify_guarantee(env, expected)
    /\ env.guarantor = env.target

\* GuaranteeSigned::ensure_self_signed
ensure_self_signed(env) == env.guarantee = env.target

(***************************************************************************)
(* The call stack.                                                         *)
(***************************************************************************)
Top == stack[Len(stack)]
Rest == SubSeq(stack, 1, Len(stack) - 1)
Running == stack # <<>> /\ ~diverged /\ Len(stack) < MaxDepth
Idle == stack = <<>> /\ ~diverged

Epoch(tabs) == IF tabs = tables THEN epoch ELSE epoch + 1

\* an operation is entered again while it is pending and no table has
\* changed since: it will be entered again forever
Reentered(frame) ==
    \E i \in 1..Len(stack) :
        /\ stack[i].type = "op"
        /\ stack[i].peer = frame.peer
        /\ stack[i].fn = frame.fn
        /\ stack[i].kind = frame.kind
        /\ stack[i].account = frame.account
        /\ stack[i].address = frame.address
        /\ stack[i].epoch = epoch

\* the frame on top moves to pc, leaves the tables as tabs and calls a
\* nested frame
Invoke(pc, target, frame, tabs, events) ==
    /\ tables' = tabs
    /\ epoch' = Epoch(tabs)
    /\ stack' = Append(Append(Rest, [Top EXCEPT !.pc = pc, !.target = target]),
                       [frame EXCEPT !.epoch = Epoch(tabs)])
    /\ ret' = NoRet
    /\ log' = log \o events
    /\ diverged' = (frame.type = "op" /\ tabs = tables /\ Reentered(frame))
    /\ UNCHANGED <<ops, cur, pre, prev, result>>

\* the frame on top returns r to its caller, leaving the tables as tabs
Leave(r, tabs, events) ==
    /\ tables' = tabs
    /\ epoch' = Epoch(tabs)
    /\ stack' = Rest
    /\ log' = log \o events
    /\ IF Len(stack) = 1
       THEN /\ ret' = NoRet
            /\ result' = r.res
       ELSE /\ ret' = r
            /\ UNCHANGED result
    /\ UNCHANGED <<ops, cur, pre, prev, diverged>>

\* a caller starts an operation with an empty stack
Begin(frame, call) ==
    /\ Idle
    /\ stack' = <<frame>>
    /\ ret' = NoRet
    /\ ops' = ops + 1
    /\ cur' = call
    /\ result' = Pending
    /\ log' = <<>>
    /\ pre' = tables
    /\ prev' = [call |-> cur, log |-> log, pre |-> pre, result |-> result]
    /\ epoch' = 0
    /\ UNCHANGED <<tables, diverged, tvars, svars>>

At(type, fn, pc) ==
    /\ Running
    /\ Top.type = type
    /\ Top.fn = fn
    /\ Top.pc = pc
    /\ (pc \in {"start", "call_raw", "recv"} \/ ret.set)

WithTable(p, t) == [tables EXCEPT ![p] = t]
WithPre(p, t) == [pre EXCEPT ![p] = t]
Written(p, opcode) == <<Event("write", p, NoAccount, opcode, NoEnv, NoFlag, OkUnit)>>
Called(p, target, opcode, env) == <<Event("call", p, target, opcode, env, NoFlag, OkUnit)>>

(***************************************************************************)
(* IpiisClient: the caller side of the six routing operations.             *)
(***************************************************************************)
get_account_primary_or_self(p, t) ==
    IF get_primary(t, NoKind) # NoAccount THEN get_primary(t, NoKind) ELSE p

\* the "next target" of get_account_primary(Some(kind)): what its inner
\* get_account_primary(None) finds, NoAccount when that call fails
get_account_primary_unkinded(p, t) == get_primary(t, NoKind)

\* IpiisClient::get_account_primary up to the external call
get_account_primary ==
    /\ At("op", "get_account_primary", "start")
    /\ LET p == Top.peer
           t == tables[p]
           stored == get_primary(t, Top.kind)
           primary == get_account_primary_unkinded(p, t)
       IN  IF stored # NoAccount
           THEN Leave(Returned(Ok(stored, NoText)), tables, <<>>)
           ELSE IF Top.kind = NoKind \/ primary = NoAccount
           THEN Leave(Returned(Err("failed to get primary address")), tables, <<>>)
           ELSE Invoke("reply", primary,
                       CallFrame(p, primary, "GetAccountPrimary",
                                 sign_owned(p, primary, Payload(Top.kind, NoAccount, NoText))),
                       tables,
                       Called(p, primary, "GetAccountPrimary",
                              sign_owned(p, primary, Payload(Top.kind, NoAccount, NoText))))
    /\ UNCHANGED <<tvars, svars>>

get_account_primary_reply_uncached ==
    /\ At("op", "get_account_primary", "reply")
    /\ Leave(Returned(IF ret.res.ok THEN Ok(ret.res.account, NoText) ELSE ret.res), tables, <<>>)
    /\ UNCHANGED <<tvars, svars>>

\* IpiisClient::get_account_primary from the response on
get_account_primary_reply ==
    /\ At("op", "get_account_primary", "reply")
    /\ LET p == Top.peer
           t == set_primary(tables[p], Top.kind, ret.res.account)
           r == RouterClient_set(t, Top.kind, ret.res.account, ret.res.address)
       IN  IF ~ret.res.ok
           THEN Leave(Returned(ret.res), tables, <<>>)
           ELSE IF ret.res.address = NoText
           THEN Leave(Returned(Ok(ret.res.account, NoText)), WithTable(p, t), <<>>)
           ELSE IF ~r.res.ok
           THEN Leave(Returned(r.res), WithTable(p, t), <<>>)
           ELSE Leave(Returned(Ok(ret.res.account, NoText)), WithTable(p, r.table), <<>>)
    /\ UNCHANGED <<tvars, svars>>

Propagate_to_any_primary(p, t, opcode, data) ==
    LET primary == get_primary(t, NoKind)
    IN  IF primary # NoAccount
        THEN Invoke("reply", primary,
                    CallFrame(p, primary, opcode, sign_owned(p, primary, data)),
                    WithTable(p, t),
                    Written(p, opcode) \o Called(p, primary, opcode, sign_owned(p, primary, data)))
        ELSE Leave(Returned(OkUnit), WithTable(p, t), Written(p, opcode))

\* the end of the four writing operations: propagate to oneself when one is
\* the root primary
Propagate(p, t, opcode, data) ==
    LET primary == get_primary(t, NoKind)
    IN  IF primary # NoAccount /\ account_ref(p) = primary
        THEN Invoke("reply", primary,
                    CallFrame(p, primary, opcode, sign_owned(p, primary, data)),
                    WithTable(p, t),
                    Written(p, opcode) \o Called(p, primary, opcode, sign_owned(p, primary, data)))
        ELSE Leave(Returned(OkUnit), WithTable(p, t), Written(p, opcode))

\* a set_account_primary that takes the account for its own
set_account_primary_as_self ==
    /\ At("op", "set_account_primary", "start")
    /\ Propagate(Top.peer, set_primary(tables[Top.peer], Top.kind, Top.account),
                 "SetAccountPrimary", Payload(Top.kind, Top.account, NoText))
    /\ account_me' = [account_me EXCEPT ![Top.peer] = Top.account]
    /\ UNCHANGED <<tvars, sImpl, accept, conns, stream, served, failedOn, parked, rvars, wvars>>

\* IpiisClient::set_account_primary
set_account_primary ==
    /\ At("op", "set_account_primary", "start")
    /\ Propagate(Top.peer, set_primary(tables[Top.peer], Top.kind, Top.account),
                 "SetAccountPrimary", Payload(Top.kind, Top.account, NoText))
    /\ UNCHANGED <<tvars, svars>>

\* IpiisClient::delete_account_primary
delete_account_primary ==
    /\ At("op", "delete_account_primary", "start")
    /\ Propagate(Top.peer, delete_primary(tables[Top.peer], Top.kind),
                 "DeleteAccountPrimary", Payload(Top.kind, NoAccount, NoText))
    /\ UNCHANGED <<tvars, svars>>

get_address_primary_or_self(p, t) ==
    IF get_primary(t, NoKind) # NoAccount THEN get_primary(t, NoKind) ELSE p

\* the peer get_address asks when the address is not stored locally
get_address_primary(p, t) == get_primary(t, NoKind)

\* IpiisClient::get_address up to the external call
get_address ==
    /\ At("op", "get_address", "start")
    /\ LET p == Top.peer
           t == tables[p]
           stored == RouterClient_get(t, Top.kind, Top.account)
           primary == get_address_primary(p, t)
       IN  IF ~stored.ok
           THEN Leave(Returned(stored), tables, <<>>)
           ELSE IF stored.address # NoText
           THEN Leave(Returned(stored), tables, <<>>)
           ELSE IF primary = NoAccount
           THEN Leave(Returned(Err("failed to get address: " \o AccountToString(Top.account))),
                      tables, <<>>)
           ELSE Invoke("reply", primary,
                       CallFrame(p, primary, "GetAddress",
                                 sign_owned(p, primary, Payload(Top.kind, Top.account, NoText))),
                       tables,
                       Called(p, primary, "GetAddress",
                              sign_owned(p, primary, Payload(Top.kind, Top.account, NoText))))
    /\ UNCHANGED <<tvars, svars>>

\* IpiisClient::get_address from the response on
get_address_reply ==
    /\ At("op", "get_address", "reply")
    /\ LET p == Top.peer
           r == RouterClient_set(tables[p], Top.kind, Top.account, ret.res.address)
       IN  IF ~ret.res.ok
           THEN Leave(Returned(ret.res), tables, <<>>)
           ELSE IF ~r.res.ok
           THEN Leave(Returned(r.res), tables, <<>>)
           ELSE Leave(Returned(Ok(NoAccount, ret.res.address)), WithTable(p, r.table), <<>>)
    /\ UNCHANGED <<tvars, svars>>

\* IpiisClient::set_address
set_address ==
    /\ At("op", "set_address", "start")
    /\ LET r == RouterClient_set(tables[Top.peer], Top.kind, Top.account, Top.address)
       IN  IF ~r.res.ok
           THEN Leave(Returned(r.res), tables, <<>>)
           ELSE Propagate(Top.peer, r.table, "SetAddress",
                          Payload(Top.kind, Top.account, Top.address))
    /\ UNCHANGED <<tvars, svars>>

\* IpiisClient::delete_address dropping the kind of the entry
delete_address_unkinded ==
    /\ At("op", "delete_address", "start")
    /\ Propagate(Top.peer, delete(tables[Top.peer], NoKind, Top.account),
                 "DeleteAddress", Payload(Top.kind, Top.account, NoText))
    /\ UNCHANGED <<tvars, svars>>

\* IpiisClient::delete_address
delete_address ==
    /\ At("op", "delete_address", "start")
    /\ Propagate(Top.peer, delete(tables[Top.peer], Top.kind, Top.account),
                 "DeleteAddress", Payload(Top.kind, Top.account, NoText))
    /\ UNCHANGED <<tvars, svars>>

\* the four writing operations undoing their write when the propagation fails
propagate_reply_rollback ==
    /\ Running
    /\ Top.type = "op"
    /\ Top.fn \in {"set_account_primary", "delete_account_primary", "set_address", "delete_address"}
    /\ Top.pc = "reply"
    /\ ret.set
    /\ Leave(Returned(IF ret.res.ok THEN OkUnit ELSE ret.res),
             IF ret.res.ok THEN tables ELSE WithTable(Top.peer, pre[Top.peer]), <<>>)
    /\ UNCHANGED <<tvars, svars>>

\* the four writing operations once the propagation has answered
propagate_reply ==
    /\ Running
    /\ Top.type = "op"
    /\ Top.fn \in {"set_account_primary", "delete_account_primary", "set_address", "delete_address"}
    /\ Top.pc = "reply"
    /\ ret.set
    /\ Leave(Returned(IF ret.res.ok THEN OkUnit ELSE ret.res), tables, <<>>)
    /\ UNCHANGED <<tvars, svars>>

(***************************************************************************)
(* external_call! / define_io!: a typed request from dialing to decoding.  *)
(***************************************************************************)
\* IpiisClient::call_raw: resolve the target's address first
call_raw ==
    /\ Running
    /\ Top.type = "call"
    /\ Top.pc = "call_raw"
    /\ Invoke("get_connection", Top.target,
              OpFrame(Top.peer, "get_address", Top.kind, Top.target, NoText), tables, <<>>)
    /\ UNCHANGED <<tvars, svars>>

\* IpiisClient::get_connection once the address is known, then
\* request::send up to the point where it waits for the result flag
get_connection ==
    /\ Running
    /\ Top.type = "call"
    /\ Top.pc = "get_connection"
    /\ ret.set
    /\ LET socks == to_socket_addrs(ret.res.address)
           server == Listener(socks.addrs[1])
       IN  IF ~ret.res.ok
           THEN Leave(Returned(ret.res), tables, <<>>)
           ELSE IF ~socks.ok
           THEN Leave(Returned(Err("failed to lookup address information")), tables, <<>>)
           ELSE IF Len(socks.addrs) = 0
           THEN Leave(Returned(Err("failed to parse the socket address: " \o ret.res.address)),
                      tables, <<>>)
           ELSE IF server = NoAccount
           THEN Leave(Returned(Err("failed to connect")), tables, <<>>)
           ELSE Invoke("recv_flag", Top.target, HandleFrame(server, Top.fn, Top.env), tables,
                       <<Event("send", Top.peer, server, Top.fn, Top.env, NoFlag, OkUnit)>>)
    /\ UNCHANGED <<tvars, svars>>

\* request::send taking every flag that contains ACK and OK for ACK | OK
RecvFlag_contains(read, bits, env, res, target) ==
    LET flag == from_bits(bits)
    IN  IF ~read
        THEN Err("network error")
        ELSE IF flag.some /\ contains(flag.bits, ACK) /\ contains(flag.bits, OK)
        THEN IF verify_guarantor(env, target) THEN res
             ELSE Err("failed to verify the response")
        ELSE IF flag.some /\ flag.bits = ACK_ERR
        THEN Err("internal error: " \o res.err)
        ELSE IF flag.some /\ contains(flag.bits, ACK)
        THEN Err("unknown ACK flag")
        ELSE Err("cannot parse the result of response")

\* request::send from the result flag on, then response::recv
RecvFlag(read, bits, env, res, target) ==
    LET flag == from_bits(bits)
    IN  IF ~read
        THEN Err("network error")
        ELSE IF flag.some /\ flag.bits = ACK_OK
        THEN IF verify_guarantor(env, target) THEN res
             ELSE Err("failed to verify the response")
        ELSE IF flag.some /\ flag.bits = ACK_ERR
        THEN Err("internal error: " \o res.err)
        ELSE IF flag.some /\ contains(flag.bits, ACK)
        THEN Err("unknown ACK flag")
        ELSE Err("cannot parse the result of response")

recv_flag ==
    /\ Running
    /\ Top.type = "call"
    /\ Top.pc = "recv_flag"
    /\ ret.set
    /\ Leave(Returned(RecvFlag(TRUE, ret.flag, ret.env, ret.res, Top.target)), tables, <<>>)
    /\ UNCHANGED <<tvars, svars>>

(***************************************************************************)
(* handle_external_call! / impl_ipiis_server!: the server side.            *)
(***************************************************************************)
HandlerFn_primary_for_address(opcode) ==
    CASE opcode = "GetAccountPrimary" -> "get_account_primary"
      [] opcode = "SetAccountPrimary" -> "set_account_primary"
      [] opcode = "DeleteAccountPrimary" -> "delete_account_primary"
      [] opcode = "GetAddress" -> "get_account_primary"
      [] opcode = "SetAddress" -> "set_address"
      [] opcode = "DeleteAddress" -> "delete_address"

\* the client operation a handler runs
HandlerFn(opcode) ==
    CASE opcode = "GetAccountPrimary" -> "get_account_primary"
      [] opcode = "SetAccountPrimary" -> "set_account_primary"
      [] opcode = "DeleteAccountPrimary" -> "delete_account_primary"
      [] opcode = "GetAddress" -> "get_address"
      [] opcode = "SetAddress" -> "set_address"
      [] opcode = "DeleteAddress" -> "delete_address"

request_recv_unbound(server, env) == verify_guarantee(env, NoAccount)
\* request::recv: read the envelope and verify it against the server itself
request_recv(server, env) == verify_guarantee(env, account_ref(server))

handler_check_delete_only(opcode, env) ==
    opcode \in {"DeleteAccountPrimary", "DeleteAddress"} => ensure_self_signed(env)

\* the check a handler makes before it touches the table
handler_check(opcode, env) == opcode \in AdminOpCodes => ensure_self_signed(env)

Handled(server, opcode, env) == <<Event("handler", server, NoAccount, opcode, env, NoFlag, OkUnit)>>
Answered(server, opcode, env, flag, res) ==
    <<Event("reply", server, NoAccount, opcode, env, flag, res)>>

\* the error branch of __handle
ErrorReply(server, opcode, msg, events) ==
    Leave(Replied(ACK_ERR, NoEnv, Err(msg)), tables,
          events \o Answered(server, opcode, NoEnv, ACK_ERR, Err(msg)))

\* __handle / __try_handle up to the client operation of the handler
try_handle ==
    /\ Running
    /\ Top.type = "handle"
    /\ Top.pc = "recv"
    /\ LET server == Top.peer
           env == Top.env
       IN  IF ~request_recv(server, env)
           THEN ErrorReply(server, Top.fn, "failed to verify the request", <<>>)
           ELSE IF ~handler_check(Top.fn, env)
           THEN ErrorReply(server, Top.fn, "the request is not self-signed",
                           Handled(server, Top.fn, env))
           ELSE Invoke("handler", NoAccount,
                       OpFrame(server, HandlerFn(Top.fn),
                               env.data.kind, env.data.account, env.data.address),
                       tables, Handled(server, Top.fn, env))
    /\ UNCHANGED <<tvars, svars>>

\* the handler after its client operation, response::send, and the error
\* branch of __handle
handle_reply ==
    /\ Running
    /\ Top.type = "handle"
    /\ Top.pc = "handler"
    /\ ret.set
    /\ LET server == Top.peer
           stored == RouterClient_get(tables[server], Top.env.data.kind, ret.res.account)
           sign == sign_as_guarantor(server, Top.env)
       IN  IF ~ret.res.ok
           THEN ErrorReply(server, Top.fn, ret.res.err, <<>>)
           ELSE IF Top.fn = "GetAccountPrimary"
           THEN IF ~stored.ok
                THEN ErrorReply(server, Top.fn, stored.err, <<>>)
                ELSE Leave(Replied(ACK_OK, sign, Ok(ret.res.account, stored.address)), tables,
                           Answered(server, Top.fn, sign, ACK_OK,
                                    Ok(ret.res.account, stored.address)))
           ELSE Leave(Replied(ACK_OK, sign, ret.res), tables,
                      Answered(server, Top.fn, sign, ACK_OK, ret.res))
    /\ UNCHANGED <<tvars, svars>>

(***************************************************************************)
(* Callers.                                                                *)
(***************************************************************************)
Call(peer, fn, kind, account, address, target) ==
    [account |-> account, address |-> address, fn |-> fn, kind |-> kind,
     peer |-> peer, target |-> target]

\* a run follows one routing entry: its first operation may be any operation,
\* the ones after it are lookups, by any peer, of the entry the first one was
\* about
PrimaryFns == {"get_account_primary", "set_account_primary", "delete_account_primary",
               "SetAccountPrimary", "DeleteAccountPrimary"}
First == ops = 0
LooksUpPrimary(kind) == cur.fn \in PrimaryFns /\ cur.kind = kind
LooksUpAddress(kind, target) ==
    cur.fn \notin PrimaryFns /\ cur.kind = kind /\ cur.account = target

\* the addresses a caller registers for an account: where the account's
\* server listens, where the next peer's server listens, or a name that does
\* not resolve
AddressInputs(account) == {IpText(account), IpText((account % NumPeers) + 1), BadText}

Call_get_account_primary(p, kind) ==
    /\ ops < MaxOps
    /\ First \/ LooksUpPrimary(kind)
    /\ Begin(OpFrame(p, "get_account_primary", kind, NoAccount, NoText),
             Call(p, "get_account_primary", kind, NoAccount, NoText, NoAccount))

Call_get_address(p, kind, target) ==
    /\ ops < MaxOps
    /\ First \/ LooksUpAddress(kind, target)
    /\ Begin(OpFrame(p, "get_address", kind, target, NoText),
             Call(p, "get_address", kind, target, NoText, NoAccount))

Call_set_account_primary(p, kind, account) ==
    /\ First
    /\ Begin(OpFrame(p, "set_account_primary", kind, account, NoText),
             Call(p, "set_account_primary", kind, account, NoText, NoAccount))

Call_delete_account_primary(p, kind) ==
    /\ First
    /\ Begin(OpFrame(p, "delete_account_primary", kind, NoAccount, NoText),
             Call(p, "delete_account_primary", kind, NoAccount, NoText, NoAccount))

Call_set_address(p, kind, target, address) ==
    /\ First
    /\ Begin(OpFrame(p, "set_address", kind, target, address),
             Call(p, "set_address", kind, target, address, NoAccount))

Call_delete_address(p, kind, target) ==
    /\ First
    /\ Begin(OpFrame(p, "delete_address", kind, target, NoText),
             Call(p, "delete_address", kind, target, NoText, NoAccount))

\* a caller that uses external_call! itself: peer p asks the server of
\* target to register p (or to delete p's entry) under kind
Call_external(p, target, opcode, kind) ==
    /\ First
    /\ Begin(CallFrame(p, target, opcode, sign_owned(p, target, Payload(kind, p, IpText(p)))),
             Call(p, opcode, kind, p, IpText(p), target))

Next ==
    \/ \E p \in Peers, kind \in OptKinds : Call_get_account_primary(p, kind)
    \/ \E p \in Peers, kind \in OptKinds, target \in Accounts : Call_get_address(p, kind, target)
    \/ \E p \in Peers, kind \in OptKinds, account \in Accounts :
          Call_set_account_primary(p, kind, account)
    \/ \E p \in Peers, kind \in OptKinds : Call_delete_account_primary(p, kind)
    \/ \E p \in Peers, kind \in OptKinds, target \in Accounts :
          \E address \in AddressInputs(target) : Call_set_address(p, kind, target, address)
    \/ \E p \in Peers, kind \in OptKinds, target \in Accounts : Call_delete_address(p, kind, target)
    \/ \E p \in Peers, target \in Peers, opcode \in AdminOpCodes, kind \in OptKinds :
          Call_external(p, target, opcode, kind)
    \/ get_account_primary
    \/ get_account_primary_reply
    \/ set_account_primary
    \/ delete_account_primary
    \/ get_address
    \/ get_address_reply
    \/ set_address
    \/ delete_address
    \/ propagate_reply
    \/ call_raw
    \/ get_connection
    \/ recv_flag
    \/ try_handle
    \/ handle_reply

Spec == Init /\ [][Next]_vars

(***************************************************************************)
(* A request that is sent again: a caller that uses external_call! itself  *)
(* repeats the request it has made, signed and filled in the same way.     *)
(***************************************************************************)
\* every peer has stored the socket of its own server (set_address by a peer
\* that is not its own primary is a local write)
Knowing(deployment) ==
    [p \in Peers |-> RouterClient_set(Deployed(deployment[p]), NoKind, p, IpText(p)).table]

RetryInit ==
    /\ account_me = Constructed
    /\ tImpl = "RouterClient"
    /\ tTable = EmptyTable
    /\ tSet = EmptyTable
    /\ tLast = NoOp
    /\ tOps = 0
    /\ tables \in {Knowing(Standalone), Knowing(Chain), Knowing(Rooted)}
    /\ pre = tables
    /\ NetIdle
    /\ StreamIdle

\* the caller makes the external call of its last operation once more
Call_retry ==
    /\ ops < MaxOps
    /\ ~First
    /\ cur.fn \in AdminOpCodes
    /\ Begin(CallFrame(cur.peer, cur.target, cur.fn,
                       sign_owned(cur.peer, cur.target,
                                  Payload(cur.kind, cur.account, cur.address))),
             cur)

\* (a propagation is only made here by a handler of a peer that is its own
\* primary and knows its own socket, and is never answered: propagate_reply
\* has no state to act in)
RetryNext ==
    \/ \E p \in Peers, target \in Peers, opcode \in AdminOpCodes, kind \in OptKinds :
          Call_external(p, target, opcode, kind)
    \/ Call_retry
    \/ set_account_primary
    \/ delete_account_primary
    \/ get_address
    \/ get_address_reply
    \/ set_address
    \/ delete_address
    \/ call_raw
    \/ get_connection
    \/ recv_flag
    \/ try_handle
    \/ handle_reply

RetrySpec == RetryInit /\ [][RetryNext]_vars
(***************************************************************************)
(* Roots whose propagation fails: every peer is its own unkinded primary,  *)
(* configured with a socket where its own server does not listen.          *)
(***************************************************************************)
\* the socket of the next peer's server; every peer has registered itself as
\* the primary of kind 1 (the writes of calls that returned an error)
Misrooted == [p \in Peers |-> Serving(Config(p, IpText((p % NumPeers) + 1)), p)]
\* a socket where no server listens
Offline == [p \in Peers |-> Serving(Config(p, ShortV6Text), p)]

PropagateInit ==
    /\ account_me = Constructed
    /\ tImpl = "RouterClient"
    /\ tTable = EmptyTable
    /\ tSet = EmptyTable
    /\ tLast = NoOp
    /\ tOps = 0
    /\ \E d \in {Misrooted, Offline} : tables = [p \in Peers |-> Deployed(d[p])]
    /\ pre = tables
    /\ NetIdle
    /\ StreamIdle

\* (no request reaches a handler that answers here, so get_address_reply and
\* handle_reply have no state to act in)
PropagateNext ==
    \/ \E p \in Peers, kind \in OptKinds, account \in Accounts :
          Call_set_account_primary(p, kind, account)
    \/ \E p \in Peers, kind \in OptKinds : Call_delete_account_primary(p, kind)
    \/ \E p \in Peers, kind \in OptKinds, target \in Accounts :
          \E address \in AddressInputs(target) : Call_set_address(p, kind, target, address)
    \/ \E p \in Peers, kind \in OptKinds, target \in Accounts : Call_delete_address(p, kind, target)
    \/ set_account_primary
    \/ delete_account_primary
    \/ get_address
    \/ set_address
    \/ delete_address
    \/ propagate_reply
    \/ call_raw
    \/ get_connection
    \/ recv_flag
    \/ try_handle

PropagateSpec == PropagateInit /\ [][PropagateNext]_vars
(***************************************************************************)
(* Lookups by peers that have stored addresses of their own before: the    *)
(* Served chain, where every peer but the root has registered a socket for *)
(* the account the root names as the primary of kind 1.                    *)
(***************************************************************************)
\* set_address(Some(1), last peer, own socket) by every peer that is not the
\* root: a local write
Stale ==
    [p \in Peers |->
        IF p = 1 THEN Deployed(Served[p])
        ELSE RouterClient_set(Deployed(Served[p]), 1, NumPeers, IpText(p)).table]

LookupInit ==
    /\ account_me = Constructed
    /\ tImpl = "RouterClient"
    /\ tTable = EmptyTable
    /\ tSet = EmptyTable
    /\ tLast = NoOp
    /\ tOps = 0
    /\ tables \in {[p \in Peers |-> Deployed(Served[p])], Stale}
    /\ pre = tables
    /\ NetIdle
    /\ StreamIdle

LookupNext ==
    \/ \E p \in Peers, kind \in OptKinds : Call_get_account_primary(p, kind)
    \/ \E p \in Peers, kind \in OptKinds, target \in Accounts : Call_get_address(p, kind, target)
    \/ get_account_primary
    \/ get_account_primary_reply
    \/ get_address
    \/ get_address_reply
    \/ call_raw
    \/ get_connection
    \/ recv_flag
    \/ try_handle
    \/ handle_reply

LookupSpec == LookupInit /\ [][LookupNext]_vars
\* the depth bound never stops an operation: only re-entry does
DepthOk == Len(stack) < MaxDepth

(***************************************************************************)
(* A server on its own: the accept loop of IpiisServer::run, the           *)
(* connection loops it spawns and the stream tasks those spawn. The        *)
(* streams are followed one at a time; the server is the root of the       *)
(* Served deployment, so its handlers make no calls of their own.          *)
(***************************************************************************)
StreamServer == TableOwner
MaxConns == NumPeers - 1
MaxStreams == MaxOps + 1
ServerImpls == {"handle_external_call", "native"}
Clients == Peers \ {StreamServer}

\* the requests a client may write: bytes that are no opcode, an opcode
\* followed by bytes that are no request, and GetAddress requests signed by a
\* client for the server or for another account
StreamRequests ==
    {NoRequest, Request("GetAddress", FALSE, NoEnv)} \cup
    {Request("GetAddress", TRUE, sign_owned(c, t, Payload(kind, NumPeers, NoText))) :
        c \in Clients, t \in {StreamServer, NumPeers}, kind \in OptKinds}

\* IpiisClient::get_address of a peer that has no primary
get_address_local(table, kind, target) ==
    LET stored == RouterClient_get(table, kind, target)
    IN  IF ~stored.ok THEN stored
        ELSE IF stored.address # NoText THEN stored
        ELSE Err("failed to get address: " \o AccountToString(target))

\* __try_handle up to the handler's result: recv opcode, request::recv,
\* handle_get_address
TryHandle(server, table, req) ==
    IF req.opcode = NoOpCode THEN Err("failed to parse the opcode")
    ELSE IF ~req.parsed THEN Err("failed to parse the received bytes")
    ELSE IF ~request_recv(server, req.env) THEN Err("failed to verify the request")
    ELSE get_address_local(table, req.env.data.kind, req.env.data.account)

StreamInit ==
    /\ account_me = Constructed
    /\ tImpl = "RouterClient"
    /\ tTable = EmptyTable
    /\ tSet = EmptyTable
    /\ tLast = NoOp
    /\ tOps = 0
    /\ tables = [p \in Peers |-> Deployed(Served[p])]
    /\ pre = tables
    /\ NetIdle
    /\ sImpl \in ServerImpls
    /\ accept = "running"
    /\ conns = <<>>
    /\ stream = NoStream
    /\ served = 0
    /\ failedOn = {}
    /\ parked = NoStream
    /\ runs = <<>>
    /\ lock = 0
    /\ WireIdle

\* IpiisServer::run: an incoming connection completes its handshake and its
\* connection loop is spawned
Accept_connection ==
    /\ accept = "running"
    /\ Len(conns) < MaxConns
    /\ conns' = Append(conns, "running")
    /\ UNCHANGED <<sImpl, accept, stream, served, failedOn, parked, rvars, wvars, ivars, tvars, nvars>>

\* IpiisServer::run: an incoming connection fails its handshake; the loop
\* warns and goes on
Accept_error ==
    /\ accept = "running"
    /\ Len(conns) < MaxConns
    /\ conns' = Append(conns, "refused")
    /\ UNCHANGED <<sImpl, accept, stream, served, failedOn, parked, rvars, wvars, ivars, tvars, nvars>>

\* IpiisServer::run: the endpoint is closed, incoming.next() is None
Accept_end ==
    /\ accept = "running"
    /\ accept' = "stopped"
    /\ UNCHANGED <<sImpl, conns, stream, served, failedOn, parked, rvars, wvars, ivars, tvars, nvars>>

\* try_handle_connection awaiting the stream's handler before it takes the
\* next stream
Connection_stream_inline(c, req) ==
    /\ c \in DOMAIN conns
    /\ conns[c] = "running"
    /\ stream.pc \in {"none", "read"}
    /\ parked = NoStream
    /\ served < MaxStreams
    /\ stream' = StreamTask(c, req, "recv", NoText, NoReply, Pending)
    /\ served' = served + 1
    /\ UNCHANGED <<sImpl, accept, conns, failedOn, parked, rvars, wvars, ivars, tvars, nvars>>

\* try_handle_connection: the client opens a stream and its task is spawned
Connection_stream(c, req) ==
    /\ c \in DOMAIN conns
    /\ conns[c] = "running"
    /\ stream.pc \in {"none", "read"}
    /\ served < MaxStreams
    /\ stream' = StreamTask(c, req, "recv", NoText, NoReply, Pending)
    /\ served' = served + 1
    /\ UNCHANGED <<sImpl, accept, conns, failedOn, parked, rvars, wvars, ivars, tvars, nvars>>

\* try_handle_connection: the client closed the connection
Connection_closed(c) ==
    /\ c \in DOMAIN conns
    /\ conns[c] = "running"
    /\ conns' = [conns EXCEPT ![c] = "closed"]
    /\ UNCHANGED <<sImpl, accept, stream, served, failedOn, parked, rvars, wvars, ivars, tvars, nvars>>

\* try_handle_connection handing the connection's error on to the accept loop
Connection_error_fatal(c) ==
    /\ c \in DOMAIN conns
    /\ conns[c] = "running"
    /\ conns' = [conns EXCEPT ![c] = "failed"]
    /\ accept' = "stopped"
    /\ UNCHANGED <<sImpl, stream, served, failedOn, parked, rvars, wvars, ivars, tvars, nvars>>

\* try_handle_connection: any other connection error
Connection_error(c) ==
    /\ c \in DOMAIN conns
    /\ conns[c] = "running"
    /\ conns' = [conns EXCEPT ![c] = "failed"]
    /\ UNCHANGED <<sImpl, accept, stream, served, failedOn, parked, rvars, wvars, ivars, tvars, nvars>>

\* __try_handle (native: try_handle): on success the response is written
\* behind ACK | OK, on failure the error is returned to the caller
Stream_try_handle ==
    /\ stream.pc = "recv"
    /\ LET r == TryHandle(StreamServer, tables[StreamServer], stream.req)
           sign == sign_as_guarantor(StreamServer, stream.req.env)
       IN  IF r.ok
           THEN /\ stream' = [stream EXCEPT !.pc = "returned",
                                            !.wire = Reply(ACK_OK, sign, r)]
                /\ UNCHANGED failedOn
           ELSE /\ stream' = [stream EXCEPT !.pc = "failed", !.err = r.err]
                /\ failedOn' = failedOn \cup {stream.conn}
    /\ UNCHANGED <<sImpl, accept, conns, served, parked, rvars, wvars, ivars, tvars, nvars>>

\* __handle, Err branch: the flag ACK | ERR and the error text are written
Stream_send_error ==
    /\ sImpl = "handle_external_call"
    /\ stream.pc = "failed"
    /\ stream' = [stream EXCEPT !.pc = "returned",
                                !.wire = Reply(ACK_ERR, NoEnv, Err(stream.err))]
    /\ UNCHANGED <<sImpl, accept, conns, served, failedOn, parked, rvars, wvars, ivars, tvars, nvars>>

\* IpiisServer::handle handing the task's error on to the connection loop
Stream_handle_propagates ==
    /\ \/ stream.pc = "returned"
       \/ sImpl = "native" /\ stream.pc = "failed"
    /\ stream' = [stream EXCEPT !.pc = "ended"]
    /\ conns' = IF stream.err # NoText
                THEN [conns EXCEPT ![stream.conn] = "failed"]
                ELSE conns
    /\ UNCHANGED <<sImpl, accept, served, failedOn, parked, rvars, wvars, ivars, tvars, nvars>>

\* IpiisServer::handle: the handler has returned, an error is logged, the
\* task ends
Stream_handle ==
    /\ \/ stream.pc = "returned"
       \/ sImpl = "native" /\ stream.pc = "failed"
    /\ stream' = [stream EXCEPT !.pc = "ended"]
    /\ UNCHANGED <<sImpl, accept, conns, served, failedOn, parked, rvars, wvars, ivars, tvars, nvars>>

\* request::send from the result flag on: the caller reads what the ended
\* stream holds
Caller_recv ==
    /\ stream.pc = "ended"
    /\ stream' = [stream EXCEPT
                    !.pc = "read",
                    !.out = RecvFlag(stream.wire.read, stream.wire.flag, stream.wire.env,
                                     stream.wire.res, stream.req.env.target)]
    /\ UNCHANGED <<sImpl, accept, conns, served, failedOn, parked, rvars, wvars, ivars, tvars, nvars>>

StreamNext ==
    \/ Accept_connection
    \/ Accept_error
    \/ Accept_end
    \/ \E c \in 1..MaxConns, req \in StreamRequests : Connection_stream(c, req)
    \/ \E c \in 1..MaxConns : Connection_closed(c)
    \/ \E c \in 1..MaxConns : Connection_error(c)
    \/ Stream_try_handle
    \/ Stream_send_error
    \/ Stream_handle
    \/ Caller_recv

StreamSpec == StreamInit /\ [][StreamNext]_vars

(***************************************************************************)
(* The tasks of a server: every connection and every stream is spawned as  *)
(* a task of its own, so a stream task may wait in its handler while       *)
(* another one is spawned, runs and is answered.                           *)
(***************************************************************************)
TaskInit == StreamInit

\* tokio::spawn of IpiisServer::handle: the task waits in its handler and the
\* runtime goes on with the connection loop
Stream_park ==
    /\ stream.pc = "recv"
    /\ parked = NoStream
    /\ parked' = stream
    /\ stream' = NoStream
    /\ UNCHANGED <<sImpl, accept, conns, served, failedOn, rvars, wvars, ivars, tvars, nvars>>

\* tokio::spawn of IpiisServer::handle: the waiting task is run again
Stream_resume ==
    /\ parked # NoStream
    /\ stream.pc \in {"none", "read"}
    /\ stream' = parked
    /\ parked' = NoStream
    /\ UNCHANGED <<sImpl, accept, conns, served, failedOn, rvars, wvars, ivars, tvars, nvars>>

TaskNext ==
    \/ Accept_connection
    \/ \E c \in 1..MaxConns, req \in StreamRequests : Connection_stream(c, req)
    \/ Stream_try_handle
    \/ Stream_send_error
    \/ Stream_handle
    \/ Caller_recv
    \/ Stream_park
    \/ Stream_resume

TaskSpec == TaskInit /\ [][TaskNext]_vars

(***************************************************************************)
(* IpiisServer::run invoked several times on one server, of the QUIC       *)
(* transport (the incoming stream sits behind a mutex) or of the TCP       *)
(* transport (the listener is used as it is).                              *)
(***************************************************************************)
MaxRuns == MaxOps + 1
Transports == {"quic", "tcp"}

\* an invocation of run: waiting for the mutex (lock), in its accept loop
\* (accept) or returned (done), and the connections it has accepted
Run(pc, taken) == [pc |-> pc, taken |-> taken]

RunInit ==
    /\ account_me = Constructed
    /\ tImpl = "RouterClient"
    /\ tTable = EmptyTable
    /\ tSet = EmptyTable
    /\ tLast = NoOp
    /\ tOps = 0
    /\ tables = [p \in Peers |-> Deployed(Served[p])]
    /\ pre = tables
    /\ NetIdle
    /\ sImpl \in Transports
    /\ accept = "running"
    /\ conns = <<>>
    /\ stream = NoStream
    /\ served = 0
    /\ failedOn = {}
    /\ parked = NoStream
    /\ runs = <<>>
    /\ lock = 0
    /\ WireIdle

\* run is called: the QUIC server goes for self.incoming.lock(), the TCP
\* server enters its loop
Run_invoke ==
    /\ Len(runs) < MaxRuns
    /\ runs' = Append(runs, Run(IF sImpl = "quic" THEN "lock" ELSE "accept", {}))
    /\ UNCHANGED <<sImpl, accept, conns, stream, served, failedOn, parked, lock, wvars, ivars, tvars, nvars>>

\* self.incoming.lock().await returns the guard
Run_lock(i) ==
    /\ i \in DOMAIN runs
    /\ runs[i].pc = "lock"
    /\ lock = 0
    /\ lock' = i
    /\ runs' = [runs EXCEPT ![i].pc = "accept"]
    /\ UNCHANGED <<sImpl, accept, conns, stream, served, failedOn, parked, wvars, ivars, tvars, nvars>>

\* incoming.next() / incoming.accept() hands a connection to the invocation
Run_accept(i) ==
    /\ i \in DOMAIN runs
    /\ runs[i].pc = "accept"
    /\ accept = "running"
    /\ Len(conns) < MaxConns
    /\ conns' = Append(conns, "running")
    /\ runs' = [runs EXCEPT ![i].taken = @ \cup {Len(conns) + 1}]
    /\ UNCHANGED <<sImpl, accept, stream, served, failedOn, parked, lock, wvars, ivars, tvars, nvars>>

\* the QUIC endpoint is closed
Run_close ==
    /\ sImpl = "quic"
    /\ accept = "running"
    /\ accept' = "stopped"
    /\ UNCHANGED <<sImpl, conns, stream, served, failedOn, parked, rvars, wvars, ivars, tvars, nvars>>

\* incoming.next() is None: the loop ends, run returns and drops the guard
Run_end(i) ==
    /\ i \in DOMAIN runs
    /\ runs[i].pc = "accept"
    /\ sImpl = "quic"
    /\ accept = "stopped"
    /\ runs' = [runs EXCEPT ![i].pc = "done"]
    /\ lock' = 0
    /\ UNCHANGED <<sImpl, accept, conns, stream, served, failedOn, parked, wvars, ivars, tvars, nvars>>

RunNext ==
    \/ Run_invoke
    \/ \E i \in 1..MaxRuns : Run_lock(i)
    \/ \E i \in 1..MaxRuns : Run_accept(i)
    \/ Run_close
    \/ \E i \in 1..MaxRuns : Run_end(i)

RunSpec == RunInit /\ [][RunNext]_vars

(***************************************************************************)
(* One typed call followed item by item on its stream: request::send and   *)
(* request::recv, the handler, response::send and response::recv of        *)
(* define_io!. The call is one of the builtin operations, served by        *)
(* IpiisServer, or the Ping of the bench module, served by                 *)
(* IpiisBenchServer. No peer has a primary, so a handler makes no call.    *)
(***************************************************************************)
WireOpCodes == {"GetAccountPrimary", "SetAccountPrimary", "GetAddress", "SetAddress", "Ping"}
\* the opcodes a server hands to a request_raw handler
RawOpCodes == {"Ping"}

\* define_io!: the declared input fields and output fields of an opcode
Inputs(opcode) == IF opcode = "Ping" THEN <<"data">> ELSE <<>>
Outputs(opcode) ==
    CASE opcode = "GetAccountPrimary" -> <<"account", "address">>
      [] opcode = "GetAddress" -> <<"address">>
      [] opcode = "Ping" -> <<"data">>
      [] OTHER -> <<>>

Field(name, val) == Item("field", name, val, 0, NoEnv)
\* the slot an item fills when it is read as what it is
SlotOf(item) ==
    CASE item.tag = "opcode" -> "opcode"
      [] item.tag = "flag" -> "flag"
      [] item.tag = "text" -> "text"
      [] OTHER -> item.name

\* Metadata::builder().expiration_date(..).build(..): an envelope that expires
sign_until(me, target, data, expiration) ==
    [sign_owned(me, target, data) EXCEPT !.expiration = expiration]

\* Verifier::verify: the expiration, if set, has not passed
verify_expiration(env, time) == env.expiration # NoExpiry => time <= env.expiration

\* every peer has registered the last peer, with its address, as the primary
\* of kind 1
WireTables == [p \in Peers |-> Deployed(Serving(Unconfigured, NumPeers))]

\* the signed payload of a call
WireData(opcode) ==
    CASE opcode = "GetAccountPrimary" -> {Payload(1, NoAccount, NoText)}
      [] opcode = "GetAddress" -> {Payload(kind, NumPeers, NoText) : kind \in OptKinds}
      [] opcode = "SetAddress" -> {Payload(NoKind, 1, IpText(1))}
      [] opcode = "SetAccountPrimary" -> {Payload(1, 1, NoText)}
      [] OTHER -> {NoData}

\* the calls: any caller, any target, the connection reaching the target's
\* server or the server of the peer after it, with or without an expiration
WireCalls ==
    UNION {{WireCall(c, t, s, opcode, sign_until(c, t, data, e)) :
                c \in Peers, s \in {t, (t % NumPeers) + 1},
                data \in WireData(opcode), e \in {NoExpiry} \cup Times} :
           opcode \in WireOpCodes, t \in Peers}

\* everything a step of the call leaves alone, the tables and the call apart
wrest ==
    <<tvars, stack, ret, ops, cur, result, log, pre, epoch, prev, diverged,
      sImpl, accept, conns, stream, served, failedOn, parked, rvars, ivars>>

WireInit ==
    /\ account_me = Constructed
    /\ tImpl = "RouterClient"
    /\ tTable = EmptyTable
    /\ tSet = EmptyTable
    /\ tLast = NoOp
    /\ tOps = 0
    /\ tables = WireTables
    /\ pre = tables
    /\ NetIdle
    /\ sImpl = "handle_external_call"
    /\ accept = "running"
    /\ conns = <<>>
    /\ stream = NoStream
    /\ served = 0
    /\ failedOn = {}
    /\ parked = NoStream
    /\ runs = <<>>
    /\ lock = 0
    /\ wcall \in WireCalls
    /\ link = "none"
    /\ up = <<>>
    /\ down = <<>>
    /\ sgot = <<>>
    /\ cgot = <<>>
    /\ wsrv = NoWireTask
    /\ wout = Pending
    /\ now \in Times

\* request::send: the opcode, the envelope, the input fields as declared
RequestItems_sign_first(call) ==
    <<Item("sign", "__sign", NoText, 0, call.env),
      Item("opcode", call.opcode, NoText, 0, NoEnv)>>
    \o [i \in 1..Len(Inputs(call.opcode)) |-> Field(Inputs(call.opcode)[i], "data")]

RequestItems(call) ==
    <<Item("opcode", call.opcode, NoText, 0, NoEnv),
      Item("sign", "__sign", NoText, 0, call.env)>>
    \o [i \in 1..Len(Inputs(call.opcode)) |-> Field(Inputs(call.opcode)[i], "data")]

\* __try_handle and request::recv (handle_ping for Ping): the slots the
\* server reads into, in the order it reads them
RequestSlots(opcode) == <<"opcode", "__sign">> \o Inputs(opcode)

\* the value of an output field of a handler's result
OutputValue(name, res) ==
    CASE name = "account" -> AccountToString(res.account)
      [] name = "address" -> res.address
      [] OTHER -> "data"

\* response::send: the flag, the envelope, the output fields as declared
ResponseItems(opcode, env, res) ==
    <<Item("flag", NoText, NoText, ACK_OK, NoEnv), Item("sign", "__sign", NoText, 0, env)>>
    \o [i \in 1..Len(Outputs(opcode)) |->
            Field(Outputs(opcode)[i], OutputValue(Outputs(opcode)[i], res))]

\* __handle, Err branch: the flag and the text of the error
ErrorItems(msg) == <<Item("flag", NoText, NoText, ACK_ERR, NoEnv), Item("text", NoText, msg, 0, NoEnv)>>

\* request::send from the flag on and response::recv: the slots the caller
\* reads into once it has read the flag
ResponseSlots(opcode, bits) ==
    IF bits = ACK_OK THEN <<"flag", "__sign">> \o Outputs(opcode)
    ELSE IF bits = ACK_ERR THEN <<"flag", "text">>
    ELSE <<"flag">>

\* IpiisClient::call_raw: the connection is made, or cannot be made
Wire_call_raw ==
    /\ wcall # NoWireCall
    /\ link = "none"
    /\ \E ok \in BOOLEAN :
          /\ link' = IF ok THEN "open" ELSE "failed"
          /\ wout' = IF ok THEN wout ELSE Err("failed to connect")
    /\ UNCHANGED <<wcall, up, down, sgot, cgot, wsrv, now, tables, wrest>>

\* request::send: the next item is written to the stream
Wire_send ==
    /\ link = "open"
    /\ Len(up) < Len(RequestItems(wcall))
    /\ up' = Append(up, RequestItems(wcall)[Len(up) + 1])
    /\ UNCHANGED <<wcall, link, down, sgot, cgot, wsrv, wout, now, tables, wrest>>

\* the opcode the server has decoded
Decoded_opcode == sgot[1].item.name
ServerSlots == IF sgot = <<>> THEN <<"opcode">> ELSE RequestSlots(Decoded_opcode)

\* __try_handle (recv opcode), request::recv or the raw handler (recv sign,
\* recv data): the server reads the next item; an item that is not what the
\* slot holds fails to parse
Wire_server_recv ==
    /\ wsrv.pc = "recv"
    /\ Len(sgot) < Len(ServerSlots)
    /\ Len(sgot) < Len(up)
    /\ LET item == up[Len(sgot) + 1]
           slot == ServerSlots[Len(sgot) + 1]
       IN  /\ sgot' = Append(sgot, Got(slot, item))
           /\ wsrv' = IF SlotOf(item) = slot /\ (slot = "opcode" => item.name \in WireOpCodes)
                      THEN wsrv
                      ELSE WireTask("send", FALSE, Err("failed to parse the received bytes"))
    /\ UNCHANGED <<wcall, link, up, down, cgot, wout, now, tables, wrest>>

\* handlers that work on a table of their own, as it was at construction
WireHandle_own_table(server, table, opcode, env) ==
    LET own == WireTables[server]
        kind == env.data.kind
        primary == get_primary(own, kind)
    IN  IF ~handler_check(opcode, env)
        THEN [res |-> Err("the request is not self-signed"), table |-> table]
        ELSE CASE opcode = "GetAccountPrimary" ->
                    [res |-> IF primary = NoAccount THEN Err("failed to get primary address")
                             ELSE Ok(primary, RouterClient_get(own, kind, primary).address),
                     table |-> table]
               [] opcode = "GetAddress" ->
                    [res |-> get_address_local(own, kind, env.data.account), table |-> table]
               [] opcode = "SetAddress" ->
                    [res |-> RouterClient_set(own, kind, env.data.account,
                                              env.data.address).res,
                     table |-> table]
               [] OTHER -> [res |-> OkUnit, table |-> table]

\* the handlers of impl_ipiis_server! and handle_ping: result and table after
WireHandle(server, table, opcode, env) ==
    LET kind == env.data.kind
        primary == get_primary(table, kind)
        set == RouterClient_set(table, kind, env.data.account, env.data.address)
    IN  IF ~handler_check(opcode, env)
        THEN [res |-> Err("the request is not self-signed"), table |-> table]
        ELSE CASE opcode = "GetAccountPrimary" ->
                    [res |-> IF primary = NoAccount THEN Err("failed to get primary address")
                             ELSE Ok(primary, RouterClient_get(table, kind, primary).address),
                     table |-> table]
               [] opcode = "GetAddress" ->
                    [res |-> get_address_local(table, kind, env.data.account),
                     table |-> table]
               [] opcode = "SetAddress" -> set
               [] opcode = "SetAccountPrimary" ->
                    [res |-> OkUnit, table |-> set_primary(table, kind, env.data.account)]
               [] OTHER -> [res |-> OkUnit, table |-> table]

\* request::recv verifies before the handler is called
Wire_try_handle_unverified ==
    /\ wsrv.pc = "recv"
    /\ sgot # <<>>
    /\ Len(sgot) = Len(ServerSlots)
    /\ LET server == wcall.server
           opcode == Decoded_opcode
           env == sgot[2].item.env
           h == WireHandle(server, tables[server], opcode, env)
       IN  /\ wsrv' = WireTask("send", TRUE, h.res)
           /\ tables' = [tables EXCEPT ![server] = h.table]
    /\ UNCHANGED <<wcall, link, up, down, sgot, cgot, wout, now, wrest>>

\* __try_handle once the request is read: request::recv verifies the
\* envelope against the server's account (a raw handler is called without),
\* then the handler runs
Wire_try_handle ==
    /\ wsrv.pc = "recv"
    /\ sgot # <<>>
    /\ Len(sgot) = Len(ServerSlots)
    /\ LET server == wcall.server
           opcode == Decoded_opcode
           env == sgot[2].item.env
           h == WireHandle(server, tables[server], opcode, env)
       IN  IF opcode \notin RawOpCodes
              /\ ~(request_recv(server, env) /\ verify_expiration(env, now))
           THEN /\ wsrv' = WireTask("send", FALSE, Err("failed to verify the request"))
                /\ UNCHANGED tables
           ELSE /\ wsrv' = WireTask("send", TRUE, h.res)
                /\ tables' = [tables EXCEPT ![server] = h.table]
    /\ UNCHANGED <<wcall, link, up, down, sgot, cgot, wout, now, wrest>>

\* what the server writes back
ReplyItems ==
    IF wsrv.res.ok
    THEN ResponseItems(Decoded_opcode, sign_as_guarantor(wcall.server, sgot[2].item.env),
                       wsrv.res)
    ELSE ErrorItems(wsrv.res.err)

\* response::send, or the Err branch of __handle: the next item is written
Wire_reply ==
    /\ wsrv.pc = "send"
    /\ Len(down) < Len(ReplyItems)
    /\ down' = Append(down, ReplyItems[Len(down) + 1])
    /\ wsrv' = IF Len(down) + 1 = Len(ReplyItems) THEN [wsrv EXCEPT !.pc = "done"] ELSE wsrv
    /\ UNCHANGED <<wcall, link, up, sgot, cgot, wout, now, tables, wrest>>

CallerSlots ==
    IF cgot = <<>> THEN <<"flag">> ELSE ResponseSlots(wcall.opcode, cgot[1].item.bits)

\* the result the caller builds from the items it has read
ReadResult(got) ==
    LET val(name) == IF \E i \in DOMAIN got : got[i].slot = name
                     THEN got[CHOOSE i \in DOMAIN got : got[i].slot = name].item.val
                     ELSE NoText
    IN  IF got[1].item.bits = ACK_ERR THEN Err(val("text"))
        ELSE Ok(AccountFromStr(val("account")), val("address"))

\* request::send from the flag on, then response::recv: the caller reads the
\* next item; with the last one read the envelope is verified and the call
\* returns
Wire_caller_recv ==
    /\ link = "open"
    /\ Len(up) = Len(RequestItems(wcall))
    /\ wout = Pending
    /\ Len(cgot) < Len(CallerSlots)
    /\ Len(cgot) < Len(down)
    /\ LET item == down[Len(cgot) + 1]
           slot == CallerSlots[Len(cgot) + 1]
           got == Append(cgot, Got(slot, item))
           slots == ResponseSlots(wcall.opcode, got[1].item.bits)
           env == IF Len(got) >= 2 /\ got[2].item.tag = "sign" THEN got[2].item.env ELSE NoEnv
       IN  /\ cgot' = got
           /\ wout' = IF SlotOf(item) # slot THEN Err("failed to parse the received bytes")
                      ELSE IF Len(got) < Len(slots) THEN wout
                      ELSE RecvFlag(TRUE, got[1].item.bits, env, ReadResult(got), wcall.target)
    /\ UNCHANGED <<wcall, link, up, down, sgot, wsrv, now, tables, wrest>>

\* IpiisClient::get_address and get_account_primary after external_call!:
\* the response is stored; an error has been returned with `?`
Wire_store ==
    /\ link = "open"
    /\ wout # Pending
    /\ link' = "closed"
    /\ LET t == tables[wcall.caller]
           kind == wcall.env.data.kind
           primary == set_primary(t, kind, wout.account)
       IN  tables' =
             IF ~wout.ok THEN tables
             ELSE IF wcall.opcode = "GetAddress"
             THEN [tables EXCEPT ![wcall.caller] =
                       RouterClient_set(t, kind, wcall.env.data.account, wout.address).table]
             ELSE IF wcall.opcode = "GetAccountPrimary"
             THEN [tables EXCEPT ![wcall.caller] =
                       IF wout.address = NoText THEN primary
                       ELSE RouterClient_set(primary, kind, wout.account, wout.address).table]
             ELSE tables
    /\ UNCHANGED <<wcall, up, down, sgot, cgot, wsrv, wout, now, wrest>>

WireNext ==
    \/ Wire_call_raw
    \/ Wire_send
    \/ Wire_server_recv
    \/ Wire_try_handle
    \/ Wire_reply
    \/ Wire_caller_recv
    \/ Wire_store

WireSpec == WireInit /\ [][WireNext]_vars

(***************************************************************************)
(* The same call on a stream whose writes may fail: response::send returns *)
(* the error of a copy_to with `?`, and __handle then takes its Err branch. *)
(***************************************************************************)
\* response::send, or the error reply of __handle: the write of the next
\* item fails. A failed response::send is an Err of __try_handle; a failed
\* error reply ends the task
Wire_reply_fails ==
    /\ wsrv.pc = "send"
    /\ Len(down) < Len(ReplyItems)
    /\ wsrv' = IF wsrv.res.ok
               THEN WireTask("error", wsrv.handled, Err("failed to write to the stream"))
               ELSE [wsrv EXCEPT !.pc = "done"]
    /\ UNCHANGED <<wcall, link, up, down, sgot, cgot, wout, now, tables, wrest>>

\* __handle, Err branch, after response::send has failed: the flag ACK | ERR
\* and the text of the error are written to the same stream, as far as the
\* stream still takes them
Wire_send_error ==
    /\ wsrv.pc = "error"
    /\ \E taken \in 0..Len(ErrorItems(wsrv.res.err)) :
          down' = down \o SubSeq(ErrorItems(wsrv.res.err), 1, taken)
    /\ wsrv' = [wsrv EXCEPT !.pc = "done"]
    /\ UNCHANGED <<wcall, link, up, sgot, cgot, wout, now, tables, wrest>>

SendNext ==
    \/ Wire_call_raw
    \/ Wire_send
    \/ Wire_server_recv
    \/ Wire_try_handle
    \/ Wire_reply
    \/ Wire_reply_fails
    \/ Wire_send_error
    \/ Wire_caller_recv
    \/ Wire_store

SendSpec == WireInit /\ [][SendNext]_vars

(***************************************************************************)
(* The same call while the server that is reached uses its own client      *)
(* interface: IpiisServer derefs to the IpiisClient it contains, so its     *)
(* local operations and its handlers go to one RouterClient.               *)
(***************************************************************************)
\* everything a local operation of the server leaves alone
lrest ==
    <<tvars, stack, ret, log, pre, epoch, prev, diverged,
      sImpl, accept, conns, stream, served, failedOn, parked, rvars, wvars, ivars>>

\* the server's own set_address of the entry the call asks for (it has no
\* primary, so the write stays local)
Local_set_address ==
    /\ ops < MaxOps
    /\ wcall.opcode = "GetAddress"
    /\ LET s == wcall.server
           d == wcall.env.data
           r == RouterClient_set(tables[s], d.kind, d.account, IpText(1))
       IN  /\ tables' = [tables EXCEPT ![s] = r.table]
           /\ cur' = Call(s, "set_address", d.kind, d.account, IpText(1), NoAccount)
           /\ result' = r.res
    /\ ops' = ops + 1
    /\ UNCHANGED lrest

\* the server's own get_address of the entry the call is about
Local_get_address ==
    /\ ops < MaxOps
    /\ wcall.opcode \in {"GetAddress", "SetAddress"}
    /\ LET s == wcall.server
           d == wcall.env.data
       IN  /\ cur' = Call(s, "get_address", d.kind, d.account, NoText, NoAccount)
           /\ result' = get_address_local(tables[s], d.kind, d.account)
    /\ ops' = ops + 1
    /\ UNCHANGED <<tables, lrest>>

\* the server's own get_account_primary of the kind the call is about
Local_get_account_primary ==
    /\ ops < MaxOps
    /\ wcall.opcode \in {"GetAccountPrimary", "SetAccountPrimary"}
    /\ LET s == wcall.server
           d == wcall.env.data
           primary == get_primary(tables[s], d.kind)
       IN  /\ cur' = Call(s, "get_account_primary", d.kind, NoAccount, NoText, NoAccount)
           /\ result' = IF primary # NoAccount THEN Ok(primary, NoText)
                        ELSE Err("failed to get primary address")
    /\ ops' = ops + 1
    /\ UNCHANGED <<tables, lrest>>

SharedNext ==
    \/ Wire_call_raw
    \/ Wire_send
    \/ Wire_server_recv
    \/ Wire_try_handle
    \/ Wire_reply
    \/ Wire_caller_recv
    \/ Wire_store
    \/ Local_set_address
    \/ Local_get_address
    \/ Local_get_account_primary

SharedSpec == WireInit /\ [][SharedNext]_vars

(***************************************************************************)
(* A get_address that resolves through the primary while the same peer     *)
(* writes the entry: the call is the GetAddress of a get_address that      *)
(* found no entry, and the caller's other tasks use the same client.       *)
(***************************************************************************)
\* the last peer is the primary of every other peer and has registered its
\* own address under kind 1; the other peers were built with its account and
\* socket and hold nothing else
RaceTables ==
    [p \in Peers |->
        IF p = NumPeers THEN WireTables[p]
        ELSE IpiisClient_new(Config(NumPeers, IpText(NumPeers)))]

\* get_address(Some(1), last peer) by a peer that has not stored the entry,
\* up to its external call
RaceCalls ==
    {WireCall(c, NumPeers, s, "GetAddress", sign_until(c, NumPeers, Payload(1, NumPeers, NoText), e)) :
        c \in Peers \ {NumPeers}, s \in {NumPeers, (NumPeers % NumPeers) + 1},
        e \in {NoExpiry} \cup Times}

RaceInit ==
    /\ account_me = Constructed
    /\ tImpl = "RouterClient"
    /\ tTable = EmptyTable
    /\ tSet = EmptyTable
    /\ tLast = NoOp
    /\ tOps = 0
    /\ tables = RaceTables
    /\ pre = tables
    /\ NetIdle
    /\ sImpl = "handle_external_call"
    /\ accept = "running"
    /\ conns = <<>>
    /\ stream = NoStream
    /\ served = 0
    /\ failedOn = {}
    /\ parked = NoStream
    /\ runs = <<>>
    /\ lock = 0
    /\ wcall \in RaceCalls
    /\ link = "none"
    /\ up = <<>>
    /\ down = <<>>
    /\ sgot = <<>>
    /\ cgot = <<>>
    /\ wsrv = NoWireTask
    /\ wout = Pending
    /\ now \in Times

\* the caller's own set_address of the entry its get_address is resolving (it
\* is not its own primary, so the write stays local)
Racing_set_address ==
    /\ ops < MaxOps
    /\ link # "closed"
    /\ LET c == wcall.caller
           d == wcall.env.data
           r == RouterClient_set(tables[c], d.kind, d.account, IpText(c))
       IN  /\ tables' = [tables EXCEPT ![c] = r.table]
           /\ cur' = Call(c, "set_address", d.kind, d.account, IpText(c), NoAccount)
           /\ result' = r.res
    /\ ops' = ops + 1
    /\ UNCHANGED lrest

\* the caller's own delete_address of that entry
Racing_delete_address ==
    /\ ops < MaxOps
    /\ link # "closed"
    /\ LET c == wcall.caller
           d == wcall.env.data
       IN  /\ tables' = [tables EXCEPT ![c] = delete(tables[c], d.kind, d.account)]
           /\ cur' = Call(c, "delete_address", d.kind, d.account, NoText, NoAccount)
           /\ result' = OkUnit
    /\ ops' = ops + 1
    /\ UNCHANGED lrest

RaceNext ==
    \/ Wire_call_raw
    \/ Wire_send
    \/ Wire_server_recv
    \/ Wire_try_handle
    \/ Wire_reply
    \/ Wire_caller_recv
    \/ Wire_store
    \/ Racing_set_address
    \/ Racing_delete_address

RaceSpec == RaceInit /\ [][RaceNext]_vars

(***************************************************************************)
(* The caller's reading of the result flag on its own: a stream that has   *)
(* ended holding any byte, or none, followed by a payload.                 *)
(***************************************************************************)
\* read_u8: every value of a u8
Bytes == 0..255

\* the request the caller sent
FlagRequest ==
    Request("GetAddress", TRUE, sign_owned(NumPeers, StreamServer, Payload(1, NumPeers, NoText)))

\* what may follow the flag: a response signed by the server, or an error text
FlagPayloads ==
    {[env |-> sign_as_guarantor(StreamServer, FlagRequest.env),
      res |-> Ok(NoAccount, IpText(NumPeers))],
     [env |-> NoEnv, res |-> Err("boom")]}

FlagReplies == {NoReply} \cup {Reply(b, p.env, p.res) : b \in Bytes, p \in FlagPayloads}

FlagInit ==
    /\ account_me = Constructed
    /\ tImpl = "RouterClient"
    /\ tTable = EmptyTable
    /\ tSet = EmptyTable
    /\ tLast = NoOp
    /\ tOps = 0
    /\ tables = [p \in Peers |-> Deployed(Served[p])]
    /\ pre = tables
    /\ NetIdle
    /\ sImpl = "handle_external_call"
    /\ accept = "running"
    /\ conns = <<"running">>
    /\ \E w \in FlagReplies : stream = StreamTask(1, FlagRequest, "ended", NoText, w, Pending)
    /\ served = 1
    /\ failedOn = {}
    /\ parked = NoStream
    /\ runs = <<>>
    /\ lock = 0
    /\ WireIdle

FlagNext == Caller_recv

FlagSpec == FlagInit /\ [][FlagNext]_vars

(***************************************************************************)
(* Properties of the deployment.                                           *)
(***************************************************************************)
\* a request has been read by a server that has not yet looked at it
Arrived == Running /\ Top.type = "handle" /\ Top.pc = "recv"

\* the server on top answers with the error flag, runs no client operation
\* and leaves every table alone
Refuses ==
    /\ stack' = Rest
    /\ ret'.set /\ ret'.flag = ACK_ERR /\ ~ret'.res.ok
    /\ tables' = tables
    /\ log'[Len(log')].ev = "reply" /\ log'[Len(log')].flag = ACK_ERR

\* event i of the log is a request that event i + 1 answers with an error
RefusedAt(i) ==
    /\ i < Len(log)
    /\ log[i + 1].ev = "reply"
    /\ log[i + 1].peer = IF log[i].ev = "send" THEN log[i].to ELSE log[i].peer
    /\ log[i + 1].flag = ACK_ERR

\* C2: a handler is invoked only for a request whose envelope names the
\* server's own account as its target; a request built for another target
\* reaches no handler on the server that reads it, changes no table, and is
\* answered with an error reply.
C2_TargetBinding ==
    /\ [](\A i \in DOMAIN log :
             /\ log[i].ev = "handler" => log[i].env.target = log[i].peer
             /\ (log[i].ev = "send" /\ log[i].env.target # log[i].to /\ i < Len(log))
                    => RefusedAt(i))
    /\ [][(Arrived /\ Top.env.target # Top.peer)
             => (Refuses /\ Len(log') = Len(log) + 1)]_vars

C2_Witness ==
    \E i \in DOMAIN log :
        /\ log[i].ev = "send"
        /\ log[i].env.target # log[i].to
        /\ RefusedAt(i)
        /\ tables[log[i].to] = pre[log[i].to]

\* C3: the SetAccountPrimary, DeleteAccountPrimary, SetAddress and
\* DeleteAddress handlers fail whenever the guarantee of the request differs
\* from its target, before any write: the table is unchanged and the reply is
\* an error.
C3_AdminSelfSigned ==
    /\ [](\A i \in DOMAIN log :
             (/\ log[i].ev = "handler"
              /\ log[i].opcode \in AdminOpCodes
              /\ log[i].env.guarantee # log[i].env.target
              /\ i < Len(log)) => RefusedAt(i))
    /\ [][(Arrived /\ Top.fn \in AdminOpCodes /\ Top.env.guarantee # Top.env.target)
             => Refuses]_vars

C3_Witness ==
    /\ Idle
    /\ tables = pre
    /\ ~result.ok
    /\ \E i \in DOMAIN log :
          /\ log[i].ev = "handler"
          /\ log[i].opcode \in AdminOpCodes
          /\ log[i].env.guarantee # log[i].env.target
          /\ log[i].env.target = log[i].peer
          /\ RefusedAt(i)

\* C4: every get_account_primary terminates in every state of the local
\* table: get_account_primary, get_address and call_raw never enter each
\* other without end.
C4_Terminates == cur.fn = "get_account_primary" => ~diverged

\* the requests peer p has written to a server in a log
SendsBy(p, events) == {i \in DOMAIN events : events[i].ev = "send" /\ events[i].peer = p}
NoRpc(events) == \A i \in DOMAIN events : events[i].ev \notin {"call", "send"}
LastEvent == log[Len(log)]
Returns(fn) == Idle /\ cur.fn = fn
\* the operation has returned or will never return
AtRest(fn) == (Idle \/ diverged) /\ cur.fn = fn
\* the operation that has returned is the one that returned before it
Repeated == prev.call = cur /\ prev.result.ok

\* C5: get_account_primary(kind) with a kind returns the locally stored
\* primary of the kind without a request; when none is stored it sends
\* exactly one GetAccountPrimary{kind} request, to the stored unkinded
\* primary, writes the account of the response as the primary of the kind
\* (and its address, if any, as the address of (kind, account)) and returns
\* that account; the same call repeated returns the same account without a
\* request.
C5_PrimaryLookup ==
    (AtRest("get_account_primary") /\ cur.kind # NoKind) =>
        LET p == cur.peer
            stored == get_primary(pre[p], cur.kind)
            primary == get_primary(pre[p], NoKind)
            sends == SendsBy(p, log)
        IN  /\ stored # NoAccount
                => (result = Ok(stored, NoText) /\ NoRpc(log) /\ tables = pre)
            /\ (stored = NoAccount /\ primary # NoAccount)
                => /\ Cardinality(sends) = 1
                   /\ \A i \in sends :
                         /\ log[i].opcode = "GetAccountPrimary"
                         /\ log[i].env.data.kind = cur.kind
                         /\ log[i].env.target = primary
                   /\ result.ok
                        => /\ LastEvent.ev = "reply" /\ LastEvent.flag = ACK_OK
                           /\ LastEvent.peer = primary
                           /\ result.account = LastEvent.res.account
                           /\ get_primary(tables[p], cur.kind) = result.account
                           /\ LastEvent.res.address # NoText
                                => RouterClient_get(tables[p], cur.kind, result.account)
                                       = Ok(NoAccount, LastEvent.res.address)
            /\ Repeated => (result = prev.result /\ NoRpc(log) /\ tables = pre)

\* C6: get_account_primary(None) without a stored unkinded primary fails
\* without a request and without a change of the table, and so does
\* get_account_primary(kind) for a kind that is not stored locally.
C6_NoPrimary ==
    (/\ cur.fn = "get_account_primary"
     /\ get_primary(pre[cur.peer], NoKind) = NoAccount
     /\ get_primary(pre[cur.peer], cur.kind) = NoAccount)
        => /\ NoRpc(log)
           /\ tables = pre
           /\ ~diverged
           /\ Idle => (~result.ok /\ result # Pending)

C6_Witness ==
    /\ Returns("get_account_primary")
    /\ cur.kind # NoKind
    /\ get_primary(pre[cur.peer], NoKind) = NoAccount
    /\ get_primary(pre[cur.peer], cur.kind) = NoAccount
    /\ ~result.ok
    /\ log = <<>>

\* C7: get_address(kind, target) returns the locally stored address without
\* a request; when none is stored and an unkinded primary is, it sends a
\* GetAddress{kind, target} request to that primary, writes the address of
\* the response under (kind, target) and returns it, and the same call
\* repeated is answered locally without a request.
C7_AddressLookup ==
    AtRest("get_address") =>
        LET p == cur.peer
            stored == RouterClient_get(pre[p], cur.kind, cur.account)
            primary == get_primary(pre[p], NoKind)
            sends == SendsBy(p, log)
        IN  /\ stored.address # NoText
                => (result = stored /\ NoRpc(log) /\ tables = pre)
            /\ (stored.address = NoText /\ primary # NoAccount)
                => /\ Cardinality(sends) = 1
                   /\ \A i \in sends :
                         /\ log[i].opcode = "GetAddress"
                         /\ log[i].env.data.kind = cur.kind
                         /\ log[i].env.data.account = cur.account
                         /\ log[i].env.target = primary
                   /\ result.ok
                        => /\ LastEvent.ev = "reply" /\ LastEvent.flag = ACK_OK
                           /\ LastEvent.peer = primary
                           /\ result.address = LastEvent.res.address
                           /\ RouterClient_get(tables[p], cur.kind, cur.account) = result
            /\ Repeated => (result = prev.result /\ NoRpc(log) /\ tables = pre)

\* C8: get_address for a target that is not stored locally, on a table
\* without an unkinded primary, fails without a request and without a change
\* of the table.
C8_NoAddress ==
    (/\ cur.fn = "get_address"
     /\ RouterClient_get(pre[cur.peer], cur.kind, cur.account).address = NoText
     /\ get_primary(pre[cur.peer], NoKind) = NoAccount)
        => /\ NoRpc(log)
           /\ tables = pre
           /\ ~diverged
           /\ Idle => (~result.ok /\ result # Pending)

C8_Witness ==
    /\ Returns("get_address")
    /\ RouterClient_get(pre[cur.peer], cur.kind, cur.account).address = NoText
    /\ get_primary(pre[cur.peer], NoKind) = NoAccount
    /\ ~result.ok
    /\ log = <<>>

WriteFns == {"set_account_primary", "delete_account_primary", "set_address", "delete_address"}

\* the opcode of the request a writing operation propagates
OpCodeOf(fn) ==
    CASE fn = "set_account_primary" -> "SetAccountPrimary"
      [] fn = "delete_account_primary" -> "DeleteAccountPrimary"
      [] fn = "set_address" -> "SetAddress"
      [] fn = "delete_address" -> "DeleteAddress"

\* the caller's table once the local write of the operation is applied
AfterWrite(t, call) ==
    CASE call.fn = "set_account_primary" -> set_primary(t, call.kind, call.account)
      [] call.fn = "delete_account_primary" -> delete_primary(t, call.kind)
      [] call.fn = "set_address" ->
            RouterClient_set(t, call.kind, call.account, call.address).table
      [] call.fn = "delete_address" -> delete(t, call.kind, call.account)

WriteFirst ==
    /\ log # <<>>
    /\ log[1].ev = "write" /\ log[1].peer = cur.peer /\ log[1].opcode = OpCodeOf(cur.fn)

\* the caller has made the external call of its operation
Propagated ==
    /\ Len(log) > 1
    /\ log[2].ev = "call" /\ log[2].peer = cur.peer /\ log[2].opcode = OpCodeOf(cur.fn)
    /\ log[2].to = cur.peer

\* C9 as stated: the four writing operations always write locally first, and
\* make the Set* / Delete* call exactly when the unkinded primary stored at
\* the caller when it calls the operation is the caller's own account; a
\* caller that is not the root primary, or has no primary, makes no call.
C9_PropagateIffRoot ==
    (cur.fn \in WriteFns /\ (Idle \/ diverged)) =>
        /\ WriteFirst
        /\ Propagated <=> get_primary(pre[cur.peer], NoKind) = cur.peer
        /\ ~Propagated => NoRpc(log)

\* C9, amended: set_address fails without a write and without a call when
\* its address does not resolve; otherwise the operation writes locally first
\* and makes the Set* / Delete* call exactly when the unkinded primary stored
\* after that write is the caller's own account.
C9_PropagateIffRootAfterWrite ==
    (cur.fn \in WriteFns /\ (Idle \/ diverged)) =>
        IF cur.fn = "set_address"
           /\ ~RouterClient_set(pre[cur.peer], cur.kind, cur.account, cur.address).res.ok
        THEN ~result.ok /\ log = <<>> /\ tables = pre
        ELSE /\ WriteFirst
             /\ Propagated
                  <=> get_primary(AfterWrite(pre[cur.peer], cur), NoKind) = cur.peer
             /\ ~Propagated => (NoRpc(log) /\ result = OkUnit
                                 /\ tables = WithPre(cur.peer, AfterWrite(pre[cur.peer], cur)))

\* a peer that was not its own primary makes itself the unkinded primary and
\* calls SetAccountPrimary
C9_Witness ==
    /\ cur.fn = "set_account_primary"
    /\ cur.kind = NoKind
    /\ cur.account = cur.peer
    /\ get_primary(pre[cur.peer], NoKind) # cur.peer
    /\ Idle \/ diverged
    /\ WriteFirst
    /\ Propagated

\* the address the nearest peer on the chain of primaries from p has stored
\* for (kind, target), where every peer on the way has stored the socket of
\* its primary's server; NoText when there is none within n steps
RECURSIVE NearestKnown(_, _, _, _, _)
NearestKnown(tabs, p, kind, target, n) ==
    LET stored == RouterClient_get(tabs[p], kind, target).address
        primary == get_primary(tabs[p], NoKind)
    IN  IF stored # NoText THEN stored
        ELSE IF n = 0 \/ primary = NoAccount THEN NoText
        ELSE IF RouterClient_get(tabs[p], NoKind, primary).address # IpText(primary) THEN NoText
        ELSE NearestKnown(tabs, primary, kind, target, n - 1)

\* C10: on a chain C <- E <- N of primaries, where each peer knows the
\* address of its primary, N's get_address(C) returns the address E has
\* stored for C; in general get_address returns the address stored at the
\* nearest ancestor that knows the target.
C10_MultiHop ==
    (AtRest("get_address")
     /\ NearestKnown(pre, cur.peer, cur.kind, cur.account, NumPeers) # NoText)
        => /\ ~diverged
           /\ result = Ok(NoAccount, NearestKnown(pre, cur.peer, cur.kind, cur.account, NumPeers))

\* N has resolved an address that neither N nor its primary E had stored,
\* through E, from the primary C of E
C10_Witness ==
    /\ Returns("get_address")
    /\ LET N == cur.peer
           E == get_primary(pre[N], NoKind)
           C == get_primary(pre[E], NoKind)
       IN  /\ E # NoAccount /\ C # NoAccount
           /\ N # E /\ E # C /\ N # C
           /\ RouterClient_get(pre[N], cur.kind, cur.account).address = NoText
           /\ RouterClient_get(pre[E], cur.kind, cur.account).address = NoText
           /\ RouterClient_get(pre[C], cur.kind, cur.account).address # NoText
           /\ result = RouterClient_get(pre[C], cur.kind, cur.account)
           /\ RouterClient_get(tables[N], cur.kind, cur.account) = result
           /\ RouterClient_get(tables[E], cur.kind, cur.account) = result

\* every peer on the chain N -> E -> C of unkinded primaries is another
\* peer and has stored the socket of its primary's server
ChainOf(tabs, N, E, C) ==
    /\ E # NoAccount /\ C # NoAccount
    /\ N # E /\ E # C /\ N # C
    /\ get_primary(tabs[N], NoKind) = E
    /\ get_primary(tabs[E], NoKind) = C
    /\ RouterClient_get(tabs[N], NoKind, E).address = IpText(E)
    /\ RouterClient_get(tabs[E], NoKind, C).address = IpText(C)

\* the first operation of the run was C.set_account_primary(kind, K), it has
\* completed, and N now looks the primary of the kind up
AfterSetPrimary(N, E, C) ==
    /\ cur.fn = "get_account_primary"
    /\ cur.peer = N
    /\ cur.kind # NoKind
    /\ prev.call.fn = "set_account_primary"
    /\ prev.call.peer = C
    /\ prev.call.kind = cur.kind
    /\ prev.result = OkUnit
    /\ ChainOf(pre, N, E, C)
    /\ get_primary(pre[N], cur.kind) = NoAccount
    /\ get_primary(pre[E], cur.kind) = NoAccount

\* C11: on a chain C <- E <- N, after C.set_account_primary(kind, K) has
\* completed, N.get_account_primary(kind) returns K when neither N nor E had
\* a primary of the kind; the request goes N -> E -> C and the answer is
\* cached at E and at N.
C11_KindedPrimary ==
    \A N \in Peers, E \in Peers, C \in Peers :
        (AfterSetPrimary(N, E, C) /\ (Idle \/ diverged)) =>
            /\ ~diverged
            /\ result = Ok(prev.call.account, NoText)
            /\ \E i \in SendsBy(N, log), j \in SendsBy(E, log) :
                 /\ i < j
                 /\ log[i].to = E /\ log[i].opcode = "GetAccountPrimary"
                 /\ log[j].to = C /\ log[j].opcode = "GetAccountPrimary"
                 /\ log[i].env.data.kind = cur.kind /\ log[j].env.data.kind = cur.kind
            /\ Cardinality(SendsBy(N, log)) = 1
            /\ Cardinality(SendsBy(E, log)) = 1
            /\ get_primary(tables[E], cur.kind) = prev.call.account
            /\ get_primary(tables[N], cur.kind) = prev.call.account

C11_Witness ==
    \E N \in Peers, E \in Peers, C \in Peers :
        /\ AfterSetPrimary(N, E, C)
        /\ Idle
        /\ get_primary(pre[C], NoKind) = NoAccount
        /\ prev.call.account \notin {N, C}
        /\ result = Ok(prev.call.account, NoText)
        /\ get_primary(tables[E], cur.kind) = prev.call.account
        /\ get_primary(tables[N], cur.kind) = prev.call.account

\* C12: the table's get(kind, account) fails whenever account is the table
\* owner's own account, for every kind and in every state of the table.
C12_SelfGetFails ==
    (tLast.op = "get" /\ tLast.account = TableOwner) => ~tLast.res.ok

\* The error texts that match 'cannot get ... myself': the message of the
\* address book, bare or passed on by up to n callers.
RECURSIVE MyselfErrors(_)
MyselfErrors(n) ==
    IF n = 0 THEN {"cannot get the address myself"}
    ELSE MyselfErrors(n - 1) \cup {"internal error: " \o m : m \in MyselfErrors(n - 1)}

\* the operation asks for the address of the peer that runs it, and that peer
\* was deployed with a primary and that primary's address
OwnAddressAsked ==
    /\ cur.fn = "get_address" /\ cur.account = cur.peer
    /\ get_primary(pre[cur.peer], NoKind) \notin {NoAccount, cur.peer}
    /\ RouterClient_get(pre[cur.peer], NoKind, get_primary(pre[cur.peer], NoKind)).address # NoText

\* C13: a peer with a configured primary chain that asks get_address(kind, its
\* own account) gets an error matching 'cannot get ... myself', for every kind.
C13_OwnAddressRefused ==
    (OwnAddressAsked /\ (Idle \/ diverged)) =>
        /\ ~diverged
        /\ ~result.ok
        /\ result.err \in MyselfErrors(NumPeers)

\* the address text resolves to exactly one socket address
ResolvesToOne(address) ==
    LET r == to_socket_addrs(address) IN r.ok /\ Len(r.addrs) = 1

\* C14: set writes only when the address resolves to exactly one socket
\* address; an address that resolves to none, to several, or not at all makes
\* set return an error and leaves the table as it was.
C14_SetResolvesToOne ==
    [][(tOps' = tOps + 1 /\ tLast'.op = "set" /\ ~ResolvesToOne(tLast'.address)) =>
           (~tLast'.res.ok /\ tTable' = tTable)]_vars

DeleteFns == {"delete_address", "delete_account_primary"}

\* the key the running delete operation is about
DeletedKey ==
    IF cur.fn = "delete_address"
    THEN to_key_canonical(cur.kind, cur.account)
    ELSE to_key_canonical(cur.kind, NoAccount)

\* what a local get of that key answers now
DeletedKeyGet ==
    IF cur.fn = "delete_address"
    THEN RouterClient_get(tables[cur.peer], cur.kind, cur.account)
    ELSE Ok(get_primary(tables[cur.peer], cur.kind), NoText)

\* C15: delete(kind, account) and delete_primary(kind) succeed when the entry
\* does not exist and leave the table unchanged; after the delete of an
\* existing entry a local get of the same key returns none, and no other key's
\* value changes.
C15_Delete ==
    (cur.fn \in DeleteFns /\ WriteFirst) =>
        LET before == pre[cur.peer]
            after == tables[cur.peer]
        IN  /\ DeletedKey \notin DOMAIN before => after = before
            /\ DeletedKeyGet = OkUnit
            /\ \A k \in DOMAIN before \ {DeletedKey} : k \in DOMAIN after /\ after[k] = before[k]
            /\ DOMAIN after \subseteq DOMAIN before
            /\ (Idle /\ NoRpc(log)) => result = OkUnit

C15_Witness ==
    /\ cur.fn \in DeleteFns /\ WriteFirst /\ Idle /\ result = OkUnit
    /\ DeletedKey \in DOMAIN pre[cur.peer]
    /\ DeletedKey \notin DOMAIN tables[cur.peer]
    /\ DOMAIN tables[cur.peer] # {}

\* the caller went on to response::recv
Decoded(out) == out.ok \/ out.err = "failed to verify the response"
\* the caller gave up on the framing of the reply
ProtocolError(out) ==
    ~out.ok /\ out.err \in {"unknown ACK flag", "cannot parse the result of response"}

\* C16: the caller decodes a typed response only if the first byte of the
\* reply is exactly 0xC0 (ACK | OK); 0xA0 (ACK | ERR) makes the call fail with
\* the server's error text; every other byte makes it fail as a protocol
\* error; a failed read makes it fail as a network error.
C16_ResultFlag ==
    stream.pc = "read" =>
        LET w == stream.wire
            out == stream.out
        IN  /\ Decoded(out) <=> (w.read /\ w.flag = 192)
            /\ (w.read /\ w.flag = 160) =>
                   (~out.ok /\ out.err \in {w.res.err, "internal error: " \o w.res.err})
            /\ (w.read /\ w.flag \notin {192, 160}) => ProtocolError(out)
            /\ ~w.read => out = Err("network error")

C16_Witness ==
    /\ stream.pc = "read"
    /\ stream.wire.read /\ stream.wire.flag = 224
    /\ stream.out = Err("unknown ACK flag")

\* the stream task is over and __try_handle had returned an error
StreamFailed == stream.pc \in {"ended", "read"} /\ stream.err # NoText

\* C17: on every stream where reading the opcode, parsing or verifying the
\* request, or running the handler fails, the server has written ACK | ERR and
\* the error message to the stream by the time the stream task ends.
C17_ErrorReported ==
    StreamFailed => stream.wire = Reply(ACK_ERR, stream.wire.env, Err(stream.err))

\* the stream holds an error reply
ErrorReplied == stream.pc \in {"ended", "read"} /\ stream.wire.read /\ stream.wire.flag = ACK_ERR

\* C18: the payload behind ACK | ERR is a guarantor-signed string carrying the
\* server's signature, and the caller takes the error text from it only after
\* verifying that signature.
C18_SignedError ==
    /\ ErrorReplied => stream.wire.env.guarantor = StreamServer
    /\ (ErrorReplied /\ stream.pc = "read" /\ stream.out.err = "internal error: " \o stream.wire.res.err)
           => verify_guarantor(stream.wire.env, stream.req.env.target)

\* the call on top of the stack is about to read an error reply
ReadsError ==
    /\ Running /\ Top.type = "call" /\ Top.pc = "recv_flag"
    /\ ret.set /\ ret.flag = ACK_ERR

\* C19: when a handler fails with message m, the error the caller of the RPC
\* gets reads exactly m, with no prefix, suffix or wrapping, at every hop.
C19_ErrorText ==
    [][ReadsError =>
           (IF Len(stack) = 1 THEN result' ELSE ret'.res) = Err(ret.res.err)]_vars

\* the request is one the server has an answer to
Answerable(req) ==
    /\ req.opcode = "GetAddress" /\ req.parsed
    /\ req.env.target = StreamServer
    /\ RouterClient_get(tables[StreamServer], req.env.data.kind, req.env.data.account).address
           # NoText

\* the answer the server owes to an answerable request
Answer(req) ==
    Reply(ACK_OK, sign_as_guarantor(StreamServer, req.env),
          RouterClient_get(tables[StreamServer], req.env.data.kind, req.env.data.account))

\* a step of a stream task
StreamStep == stream' # stream /\ stream.pc \in {"recv", "failed", "returned"}

\* C20: a failing stream does not affect later work: after a stream's handler
\* has failed, the server still takes every later stream on the same and on
\* every other connection and answers it correctly, and neither the
\* connection loop nor the accept loop exits because of a stream's error.
C20_StreamsIndependent ==
    /\ []((stream.pc \in {"ended", "read"} /\ Answerable(stream.req))
             => stream.wire = Answer(stream.req))
    /\ []((stream.pc = "read" /\ Answerable(stream.req))
             => stream.out = Answer(stream.req).res)
    /\ []((failedOn # {} /\ stream.pc = "read" /\ served < MaxStreams)
             => \A c \in DOMAIN conns : \A req \in StreamRequests :
                    conns[c] = "running" => ENABLED Connection_stream(c, req))
    /\ [][StreamStep => (accept' = accept /\ conns' = conns)]_vars

C20_Witness ==
    /\ Cardinality(failedOn) > 1
    /\ stream.conn \in failedOn
    /\ served = MaxStreams
    /\ stream.pc = "read" /\ Answerable(stream.req)
    /\ stream.out = Ok(NoAccount, IpText(NumPeers))
    /\ accept = "running"
    /\ \A c \in failedOn : conns[c] = "running"

\* connection c's loop ends in this step
ConnectionEnds(c) ==
    /\ c \in DOMAIN conns /\ conns[c] = "running"
    /\ conns'[c] \in {"closed", "failed"}

\* the accept loop turns an incoming connection down in this step
AcceptFails ==
    /\ Len(conns') = Len(conns) + 1
    /\ conns'[Len(conns')] = "refused"

\* every connection but c is as it was, and so are the accept loop and the
\* stream task
OthersUntouched(c) ==
    /\ accept' = accept
    /\ stream' = stream
    /\ \A d \in DOMAIN conns : d # c => conns'[d] = conns[d]

\* C21: a connection that reports 'application closed' ends its loop cleanly,
\* any other transport error ends only that connection's task, a failed accept
\* is logged and the accept loop goes on; in all three cases every other
\* connection keeps being served and the accept loop keeps accepting.
C21_ConnectionFailures ==
    /\ [][\A c \in 1..MaxConns : ConnectionEnds(c) => OthersUntouched(c)]_vars
    /\ [][AcceptFails => OthersUntouched(0)]_vars
    /\ []((accept = "running" /\ Len(conns) < MaxConns) => ENABLED Accept_connection)
    /\ [](\A c \in DOMAIN conns :
             (conns[c] = "running" /\ stream.pc \in {"none", "read"} /\ served < MaxStreams)
                 => \A req \in StreamRequests : ENABLED Connection_stream(c, req))

C21_Witness ==
    /\ accept = "running"
    /\ \E c \in DOMAIN conns, d \in DOMAIN conns :
          /\ conns[c] \in {"closed", "failed", "refused"} /\ conns[d] = "running"
          /\ c < d
          /\ stream.conn = d /\ stream.pc = "read"
          /\ stream.out = Ok(NoAccount, IpText(NumPeers))

\* a stream task is waiting in its handler
Waiting == parked # NoStream /\ parked.pc = "recv"

\* C22: every accepted connection and every accepted stream is handled in a
\* task of its own: a stream whose handler does not complete keeps no other
\* stream, on the same or on another connection, from being accepted, handled
\* and answered, and the replies to concurrent streams may come in any order.
C22_TasksIndependent ==
    /\ []((Waiting /\ stream.pc \in {"none", "read"} /\ served < MaxStreams)
             => \A c \in DOMAIN conns : \A req \in StreamRequests :
                    conns[c] = "running" => ENABLED Connection_stream(c, req))
    /\ []((Waiting /\ Len(conns) < MaxConns) => ENABLED Accept_connection)
    /\ []((Waiting /\ stream.pc \in {"recv", "failed", "returned", "ended"})
             => ENABLED (Stream_try_handle \/ Stream_send_error \/ Stream_handle \/ Caller_recv))
    /\ []((Waiting /\ stream.pc \in {"ended", "read"} /\ Answerable(stream.req))
             => stream.wire = Answer(stream.req))
    /\ [][(Waiting /\ stream' # stream /\ stream.pc \in {"recv", "failed", "returned", "ended"})
             => parked' = parked]_vars

\* a stream spawned later on the same connection is answered while the
\* earlier one is still in its handler
C22_Witness ==
    /\ Waiting
    /\ stream.conn = parked.conn
    /\ stream.pc = "read" /\ Answerable(stream.req)
    /\ stream.out = Ok(NoAccount, IpText(NumPeers))

\* the invocations of run that are in their accept loop
Accepting == {i \in DOMAIN runs : runs[i].pc = "accept"}

\* C23: when run is invoked several times on one server, at most one
\* invocation is accepting at any moment, a second one waits until the first
\* has released the incoming stream, and every incoming connection is handed
\* to exactly one invocation.
C23_ListenerSerialized ==
    /\ Cardinality(Accepting) <= 1
    /\ \A i \in DOMAIN runs : (runs[i].pc = "lock" /\ Accepting # {}) => ~ENABLED Run_lock(i)
    /\ \A c \in DOMAIN conns : Cardinality({i \in DOMAIN runs : c \in runs[i].taken}) = 1

(***************************************************************************)
(* Properties of a typed call on its stream.                               *)
(***************************************************************************)
\* C24: within a stream the caller writes the opcode, then the guarantee
\* envelope, then the input fields as declared, and writes nothing before the
\* connection is made; the server reads the same items into the same slots in
\* that order; a response is written as result flag, guarantor envelope and
\* the output fields as declared, and the caller reads it back in that order.
C24_WireOrder ==
    /\ link \in {"none", "failed"} => up = <<>>
    /\ \A i \in DOMAIN up :
          SlotOf(up[i]) = (<<"opcode", "__sign">> \o Inputs(wcall.opcode))[i]
    /\ \A i \in DOMAIN sgot : sgot[i].item = up[i] /\ sgot[i].slot = SlotOf(up[i])
    /\ (down # <<>> /\ down[1].bits = ACK_OK) =>
          \A i \in DOMAIN down :
             SlotOf(down[i]) = (<<"flag", "__sign">> \o Outputs(wcall.opcode))[i]
    /\ \A i \in DOMAIN cgot : cgot[i].item = down[i] /\ cgot[i].slot = SlotOf(down[i])

\* a Ping has been written, read by the server, answered and read back: the
\* envelope before the data both ways
C24_Witness ==
    /\ wcall.opcode = "Ping"
    /\ Len(sgot) = 3 /\ sgot[3].slot = "data"
    /\ Len(cgot) = 3 /\ cgot[2].slot = "__sign" /\ cgot[3].slot = "data"
    /\ wout.ok

\* the response the caller has read carries an envelope for the callee the
\* request was addressed to, signed by that callee as guarantor
Verifies ==
    /\ Len(cgot) >= 2
    /\ cgot[2].slot = "__sign"
    /\ cgot[2].item.env.target = wcall.target
    /\ cgot[2].item.env.guarantor = wcall.target

\* C25: a typed call returns a successful response only if the response's
\* guarantor-signed envelope verifies and its target is the callee the request
\* was addressed to; otherwise the call returns an error, no output field is
\* handed to the caller and nothing is written to the caller's routing table.
C25_ResponseAuthenticated ==
    /\ [](wout.ok => Verifies)
    /\ [](~Verifies => wout.account = NoAccount /\ wout.address = NoText)
    /\ []((wout # Pending /\ ~Verifies) => ~wout.ok)
    /\ [][(link = "open" /\ link' = "closed" /\ ~Verifies) => tables' = tables]_vars

\* a server that is not the callee has answered behind ACK | OK, signing as
\* itself; the caller has read the whole response and returned an error
C25_Witness ==
    /\ link = "closed"
    /\ Len(cgot) = Len(ResponseSlots(wcall.opcode, ACK_OK))
    /\ cgot[1].item.bits = ACK_OK
    /\ cgot[2].item.env.guarantor = wcall.server
    /\ wcall.server # wcall.target
    /\ wout = Err("failed to verify the response")

\* the request reached a typed handler's server after its expiration
Expired ==
    /\ wcall.opcode \notin RawOpCodes
    /\ wcall.env.expiration # NoExpiry
    /\ wcall.env.expiration < now

GetByOther ==
    /\ wcall.opcode \in {"GetAddress", "GetAccountPrimary"}
    /\ wcall.caller # wcall.server
    /\ wcall.target = wcall.server
    /\ wcall.env.guarantee = wcall.caller
    /\ (wcall.env.expiration = NoExpiry \/ now <= wcall.env.expiration)

\* what the server's table holds for the request: the address of the
\* account, or the primary of the kind
Resolved ==
    LET t == WireTables[wcall.server]
        d == wcall.env.data
    IN  IF wcall.opcode = "GetAddress"
        THEN Ok(NoAccount, TableGet(t, to_key_canonical(d.kind, d.account)))
        ELSE LET primary == TableGet(t, to_key_canonical(d.kind, NoAccount))
             IN  Ok(AccountFromStr(primary),
                    TableGet(t, to_key_canonical(d.kind, AccountFromStr(primary))))
Resolvable ==
    IF wcall.opcode = "GetAddress" THEN Resolved.address # NoText
    ELSE Resolved.account # NoAccount

\* C27: a GetAddress or GetAccountPrimary request validly signed by any
\* account other than the server and addressed to the server is handled and
\* answered with ACK | OK when the server can resolve the entry; being signed
\* by another account than its target does not get it refused.
C27_GetsOpen ==
    (GetByOther /\ Resolvable) =>
        /\ ~ensure_self_signed(wcall.env)
        /\ wsrv.pc # "recv" => (wsrv.handled /\ wsrv.res = Resolved)
        /\ down # <<>> => down[1].bits = ACK_OK
        /\ (link # "failed" /\ wout # Pending) => wout = Resolved

\* the server's answer to a GetAddress of another peer has been read
C27_Witness ==
    /\ GetByOther
    /\ Resolvable
    /\ wcall.opcode = "GetAddress"
    /\ cgot # <<>> /\ cgot[1].item.bits = ACK_OK
    /\ wout = Ok(NoAccount, IpText(NumPeers))

\* operations have been performed: a write, and a call a server has answered
Operated ==
    /\ ops > 0
    /\ \E i \in DOMAIN log : log[i].ev = "write"
    /\ \E i \in DOMAIN log : log[i].ev = "reply"

\* C28: the identity is fixed at construction: in every state reached by any
\* sequence of get, set, delete and call operations account_ref() of a client
\* or server is the reference of the account it was constructed with; no
\* operation changes the held account.
C28_IdentityFixed ==
    /\ [](\A p \in Peers : account_ref(p) = Constructed[p])
    /\ [][account_me' = account_me]_vars

\* a peer has written to its table and called a server, which signed its
\* answer with the account it was constructed with
C28_Witness ==
    /\ Operated
    /\ \E i \in DOMAIN log :
          /\ log[i].ev = "reply"
          /\ log[i].flag = ACK_OK
          /\ log[i].env.guarantor = Constructed[log[i].peer]

(***************************************************************************)
(* Properties of a server and the client it contains.                      *)
(***************************************************************************)
\* the server performs a local operation of its client interface
LocalStep(fn) == ops' = ops + 1 /\ cur'.fn = fn /\ cur'.peer = wcall.server
\* the handler of the call has run and returned Ok
HandlerWrote(opcode) == wcall.opcode = opcode /\ wsrv.handled /\ wsrv.res.ok
\* the handler of the call runs in this step
HandlerRuns(opcode) == wcall.opcode = opcode /\ wsrv.pc = "recv" /\ wsrv'.handled

\* C29: a server and the client it contains work on one routing table: an
\* entry written by a handler (SetAddress, SetAccountPrimary) is what the
\* server's own get_address / get_account_primary return afterwards, and an
\* entry written through the server's client interface is what a handler
\* that runs afterwards answers with.
C29_SharedTable ==
    /\ [][(HandlerWrote("SetAddress") /\ LocalStep("get_address"))
             => result' = Ok(NoAccount, wcall.env.data.address)]_vars
    /\ [][(HandlerWrote("SetAccountPrimary") /\ LocalStep("get_account_primary"))
             => result' = Ok(wcall.env.data.account, NoText)]_vars
    /\ [][(cur.fn = "set_address" /\ result.ok /\ HandlerRuns("GetAddress"))
             => wsrv'.res = Ok(NoAccount, cur.address)]_vars

\* the server's own get_address has returned the address that the SetAddress
\* handler wrote; the table held no such entry before
C29_Witness ==
    /\ HandlerWrote("SetAddress")
    /\ get_address_local(WireTables[wcall.server], wcall.env.data.kind,
                         wcall.env.data.account).ok = FALSE
    /\ cur = Call(wcall.server, "get_address", wcall.env.data.kind, wcall.env.data.account,
                  NoText, NoAccount)
    /\ result = Ok(NoAccount, IpText(1))

(***************************************************************************)
(* Properties of the key encoding.                                         *)
(***************************************************************************)
\* the (optional kind, optional account) pairs a key is made of
KeyInputs == OptKinds \X (Accounts \cup {NoAccount})
\* what the table holds for a pair
Slot(table, pair) == TableGet(table, to_key_canonical(pair[1], pair[2]))
\* the pair the last table operation was about
LastPair ==
    <<tLast.kind, IF tLast.op \in {"set", "get", "delete"} THEN tLast.account ELSE NoAccount>>

\* C30: the canonical key [flag] ++ kind_bytes ++ account_bytes, with
\* flag = (kind_present << 1) | account_present, is injective over (optional
\* kind, optional account): two different pairs never produce the same key,
\* so a write for one pair leaves what every other pair holds alone, across
\* the four variants.
C30_KeysCollisionFree ==
    /\ [](\A x, y \in KeyInputs :
             to_key_canonical(x[1], x[2]) = to_key_canonical(y[1], y[2]) => x = y)
    /\ [][\A x \in KeyInputs : x # LastPair' => Slot(tTable', x) = Slot(tTable, x)]_vars

\* the table holds a primary of kind 1 and an address of account 1 without a
\* kind, whose kind bytes and account bytes are the same, under two keys
C30_Witness ==
    /\ KindBytes(1) = AccountBytes(1)
    /\ Slot(tTable, <<1, NoAccount>>) # NoText
    /\ Slot(tTable, <<NoKind, 1>>) # NoText
    /\ Slot(tTable, <<1, NoAccount>>) # Slot(tTable, <<NoKind, 1>>)
    /\ tLast.op = "set_primary"

(***************************************************************************)
(* Frame of the table operations.                                          *)
(***************************************************************************)
\* the key the last table operation was about
LastKey == to_key_canonical(LastPair[1], LastPair[2])
\* the operations that write the table
TableWrites == {"set", "set_primary", "delete", "delete_primary"}

\* C31: set, set_primary, delete and delete_primary for one key leave the
\* value of every other key unchanged: no other key appears, disappears or
\* changes, so an address under kind 'none' is not changed by operations on
\* the same account under a specific kind and the other way round, and address
\* entries and primary entries do not affect each other; a get returns the
\* address last set under exactly its own kind and account, or none.
C31_NamespaceIsolation ==
    /\ [][tLast'.op \in TableWrites =>
             \A k \in (DOMAIN tTable \cup DOMAIN tTable') \ {LastKey'} :
                 /\ k \in DOMAIN tTable /\ k \in DOMAIN tTable'
                 /\ tTable'[k] = tTable[k]]_vars
    /\ [][(tLast'.op = "get" /\ tLast'.res.ok) =>
             tLast'.res.address = TableGet(tSet, LastKey')]_vars
    /\ [][tLast'.op \in {"get", "get_primary"} => tTable' = tTable]_vars

\* account 1 has an address without a kind and another one under kind 1, the
\* second written last; or the address under kind 1 has just been erased and
\* the one without a kind is still there
C31_Witness ==
    /\ Slot(tTable, <<NoKind, 1>>) = IpText(1)
    /\ \/ /\ tLast = LastOp("set", 1, 1, IpText(2), OkUnit)
          /\ Slot(tTable, <<1, 1>>) = IpText(2)
       \/ /\ tLast = LastOp("delete", 1, 1, NoText, OkUnit)
          /\ Slot(tTable, <<1, 1>>) = NoText

(***************************************************************************)
(* Propagation by a peer that is its own primary.                          *)
(***************************************************************************)
\* the table names its owner as the unkinded primary and holds the socket the
\* owner's server listens on
SelfRooted(p, t) ==
    /\ get_primary(t, NoKind) = p
    /\ RouterClient_get(t, NoKind, p) = Ok(NoAccount, IpText(p))

\* the requests of the running operation's opcode handed to a handler of the
\* caller's own server
Delivered ==
    {i \in DOMAIN log : log[i].ev = "handler" /\ log[i].peer = cur.peer
                        /\ log[i].opcode = OpCodeOf(cur.fn)}

\* C34: a peer whose unkinded primary is itself, with its own address stored
\* (before and after the write), calls one of the four writing operations
\* with an address that resolves: the call completes, and exactly one Set* /
\* Delete* request reaches its server (the handler that applies the write
\* does not propagate again).
C34_SelfPropagationTerminates ==
    (/\ cur.fn \in WriteFns
     /\ SelfRooted(cur.peer, pre[cur.peer])
     /\ SelfRooted(cur.peer, AfterWrite(pre[cur.peer], cur))
     /\ cur.fn = "set_address"
          => RouterClient_set(pre[cur.peer], cur.kind, cur.account, cur.address).res.ok)
        => /\ ~diverged
           /\ Cardinality(Delivered) <= 1
           /\ Idle => (result = OkUnit /\ Cardinality(Delivered) = 1)

(***************************************************************************)
(* Admin requests processed more than once.                                *)
(***************************************************************************)
\* the running operation is an admin request its target accepts: signed by
\* the account it is addressed to
ValidAdmin == cur.fn \in AdminOpCodes /\ cur.peer = cur.target

\* the handlers the target's server has run for it
Processings ==
    {i \in DOMAIN log : log[i].ev = "handler" /\ log[i].peer = cur.target
                        /\ log[i].opcode = cur.fn /\ ensure_self_signed(log[i].env)}

\* the request was made before, reached the handler then, and succeeded
ProcessedBefore ==
    /\ prev.call = cur
    /\ prev.result.ok
    /\ \E i \in DOMAIN prev.log : prev.log[i].ev = "handler" /\ prev.log[i].opcode = cur.fn

\* C32 (processing ends): a valid SetAccountPrimary, SetAddress,
\* DeleteAccountPrimary or DeleteAddress request that a server processes is
\* processed to the end, the first time and every time after.
C32_ProcessingEnds == (ValidAdmin /\ Processings # {}) => ~diverged

\* C32 (same table): the same valid admin request processed a second time
\* succeeds and leaves the server's table as the first processing left it.
C32_SecondLeavesTable ==
    (ValidAdmin /\ ProcessedBefore /\ Processings # {} /\ Idle)
        => (result = OkUnit /\ tables = pre)

\* C32: processing the same valid admin request twice leaves the server's
\* routing table as processing it once, and the second processing succeeds.
C32_IdempotentAdmin == C32_ProcessingEnds /\ C32_SecondLeavesTable

\* a peer that is not its own primary has processed the same request twice
C32_TwiceProcessed ==
    ValidAdmin /\ ProcessedBefore /\ Processings # {} /\ Idle /\ result = OkUnit

(***************************************************************************)
(* Result flags on one stream.                                             *)
(***************************************************************************)
\* where the server has written a result flag
FlagsWritten == {i \in DOMAIN down : down[i].tag = "flag"}

\* C33: on every stream the server writes one result flag, as the first byte
\* of the response; in no execution, a failing response::send after the flag
\* ACK | OK included, does it write ACK | OK and later ACK | ERR on the same
\* stream.
C33_OneResultFlag ==
    /\ down # <<>> => down[1].tag = "flag"
    /\ Cardinality(FlagsWritten) <= 1
    /\ \A i, j \in FlagsWritten : (i < j /\ down[i].bits = ACK_OK) => down[j].bits # ACK_ERR

(***************************************************************************)
(* Resolution through a primary whose address is not known.                *)
(***************************************************************************)
\* the table holds an unkinded primary and no address for it
PrimaryUnreachable(t) ==
    /\ get_primary(t, NoKind) # NoAccount
    /\ RouterClient_get(t, NoKind, get_primary(t, NoKind)) = Ok(NoAccount, NoText)

\* the running operation is a get_address of an entry its caller has not
\* stored, or an external call to the caller's primary
NeedsPrimary ==
    LET t == pre[cur.peer]
    IN  \/ /\ cur.fn = "get_address"
           /\ RouterClient_get(t, cur.kind, cur.account) = Ok(NoAccount, NoText)
        \/ /\ cur.fn \in AdminOpCodes
           /\ cur.target = get_primary(t, NoKind)

\* C35: with an unkinded primary stored and no address stored for it,
\* get_address of a locally missing entry, and a call to the primary,
\* terminate and return an error; get_address, call_raw and get_connection do
\* not enter each other without end.
C35_UnknownPrimaryAddress ==
    (NeedsPrimary /\ PrimaryUnreachable(pre[cur.peer]))
        => /\ ~diverged
           /\ Idle => ~result.ok

(***************************************************************************)
(* Resolution across peers.                                                *)
(***************************************************************************)
\* no peer has stored the entry the running lookup asks for
StoredNowhere ==
    \/ /\ cur.fn = "get_address"
       /\ \A q \in Peers : RouterClient_get(pre[q], cur.kind, cur.account) = Ok(NoAccount, NoText)
    \/ /\ cur.fn = "get_account_primary"
       /\ \A q \in Peers : get_primary(pre[q], cur.kind) = NoAccount

\* every peer that has a primary has stored the socket its primary's server
\* listens on
PrimariesReachable ==
    \A q \in Peers :
        get_primary(pre[q], NoKind) # NoAccount =>
            RouterClient_get(pre[q], NoKind, get_primary(pre[q], NoKind))
                = Ok(NoAccount, IpText(get_primary(pre[q], NoKind)))

\* C36: whatever the primaries of the peers are, a chain of primaries that
\* leads back to a peer included, a get_address or get_account_primary for an
\* entry that no peer has stored returns an error to the original caller; no
\* request is forwarded between peers forever.
C36_ResolutionEnds ==
    (StoredNowhere /\ PrimariesReachable)
        => /\ ~diverged
           /\ Idle => ~result.ok

(***************************************************************************)
(* Propagation that fails.                                                 *)
(***************************************************************************)
\* the key the running writing operation is about
WrittenKey ==
    to_key_canonical(cur.kind,
                     IF cur.fn \in {"set_address", "delete_address"} THEN cur.account
                     ELSE NoAccount)

\* the external call of the running operation was not answered with ACK | OK
RpcFailed == ~(LastEvent.ev = "reply" /\ LastEvent.flag = ACK_OK)

\* C37: a root primary's set_address, set_account_primary, delete_address or
\* delete_account_primary whose propagation call fails (the address of the
\* root does not lead to a connection, or the reply is ACK | ERR) returns an
\* error, and the local table keeps the value written, or the deletion made,
\* before the call: nothing is rolled back.
C37_NoRollback ==
    (cur.fn \in WriteFns /\ WriteFirst /\ Propagated) =>
        /\ tables[cur.peer] = AfterWrite(pre[cur.peer], cur)
        /\ (Idle /\ RpcFailed) => ~result.ok

\* a root has changed its table, its propagation call has been refused by the
\* server it reached (or has reached no server), and the operation has
\* returned the error with the change still in the table
C37_Witness ==
    /\ cur.fn \in WriteFns /\ WriteFirst /\ Propagated
    /\ Idle /\ RpcFailed /\ ~result.ok
    /\ TableGet(tables[cur.peer], WrittenKey) # TableGet(pre[cur.peer], WrittenKey)
    /\ TableGet(tables[cur.peer], WrittenKey)
         = TableGet(AfterWrite(pre[cur.peer], cur), WrittenKey)

(***************************************************************************)
(* What a lookup writes.                                                   *)
(***************************************************************************)
LookupFns == {"get_address", "get_account_primary"}

\* C38: get_address and get_account_primary, called locally or run by the
\* servers that handle GetAddress / GetAccountPrimary on the way, never
\* change the value of a routing entry that was present before the call: the
\* only changes are insertions under keys that were absent.
C38_GetsFillGaps ==
    cur.fn \in LookupFns =>
        \A q \in Peers :
            \A k \in DOMAIN pre[q] : k \in DOMAIN tables[q] /\ tables[q][k] = pre[q][k]

(***************************************************************************)
(* Writes made while a lookup is resolving.                                *)
(***************************************************************************)
\* what the caller's table holds for the entry its get_address asked for
RacedEntry ==
    RouterClient_get(tables[wcall.caller], wcall.env.data.kind, wcall.env.data.account)

\* the get_address has completed, and so has a write of the same entry that
\* the caller made while the get_address was resolving
BothCompleted(fn) == link = "closed" /\ cur.fn = fn /\ cur.peer = wcall.caller /\ result.ok

\* C39: a set_address(kind, t, a) executed while a get_address(kind, t) of
\* the same peer, started when the entry was missing, is resolving through
\* the primary, wins: once both have completed the table holds a for
\* (kind, t), not the value fetched from the primary; a delete_address that
\* completes during the resolution is not undone by the cache write.
C39_ExplicitWritesWin ==
    /\ BothCompleted("set_address") => RacedEntry = Ok(NoAccount, cur.address)
    /\ BothCompleted("delete_address") => RacedEntry = Ok(NoAccount, NoText)

====
